---- MODULE Spec2Model ----
(***************************************************************************)
(* A model of the SEC filing pipeline of Job-intelligence-bureau:          *)
(*   - SECClient._fetch, get_cik, get_filings (src/sec_client.py)          *)
(*   - _normalize_text, _split_sentences, analyze_textual_changes          *)
(*     (src/forensic_modules.py)                                           *)
(* Text is modelled as sequences of one-character strings, so that the     *)
(* string functions of the code (upper, strip, replace, zfill, re.sub,     *)
(* startswith) are computed and not assumed.                               *)
(***************************************************************************)
EXTENDS Integers, Sequences, FiniteSets, TLC

VARIABLES
    use_proxies,   \* SECClient.use_proxies, fixed at construction
    headers_host,  \* SECClient.headers["Host"], shared by all calls of a client
    f_pc,          \* position of the running _fetch call
    f_url,         \* the url argument of the running _fetch call
    f_idx,         \* index in PROXIES of the next relay endpoint to try
    f_log,         \* the requests.get calls of the running _fetch call, in order
    f_ret,         \* return value of the last _fetch call
    f_caller,      \* who called _fetch: "user" or "get_cik"
    c_pc,          \* position of the running get_cik call
    c_arg,         \* the ticker argument of get_cik, as passed
    c_ticker,      \* the local variable ticker of get_cik, after normalisation
    c_ret,         \* return value of the last get_cik call
    c_fetches,     \* number of _fetch calls made by the running get_cik call
    n_pc,          \* how often _normalize_text has been applied to n_in
    n_in,          \* a text
    n_once,        \* _normalize_text(n_in)
    n_twice,       \* _normalize_text(_normalize_text(n_in))
    r_pc,          \* position of the analyze_textual_changes call
    r_current,     \* its argument current_text
    r_previous,    \* its argument previous_text
    r_seed,        \* the string hash seed of the process: decides set iteration order
    r_result,      \* the dictionary it returns
    g_pc,          \* position of the get_filings call: the strategy it is about to try
    g_form,        \* its argument form_type
    g_count,       \* its argument count
    g_hint,        \* whether its argument ticker was supplied
    g_local,       \* the content of data/{ticker}/filings.json, None without the file
    g_input,       \* what the strategy that answered was given to work on
    g_log,         \* the network strategies it has attempted, with what each produced
    g_ret,         \* the list it returned
    a_pc,          \* position of the financial audit: batch job, then interactive path
    a_facts,       \* what the company-facts API gives for the company
    a_audit,       \* what analyze_financials returned in the batch job
    a_stored,      \* the content of data/<ticker>/financials.json
    a_shown,       \* what analyze_financials returned on the interactive path
    h_pc,          \* position of the parse_13f_holdings call
    h_xml,         \* its argument xml_content
    h_ret,         \* the list it returned
    x_pc,          \* position of the extract_item_1a call
    x_html,        \* its argument html
    x_ret,         \* the string it returned
    b_pc,          \* position of the batch job inside the loop body
    b_i,           \* index in TICKERS of the ticker being processed
    b_log,         \* the tickers the loop has finished with, and how
    b_asked,       \* the get_filings requests made for the ticker being processed
    b_saved,       \* the list written to its data/{ticker}/filings.json, None before
    t_pc,          \* per thread: position inside the direct branch of _fetch
    t_work,        \* per thread: the urls it still has to fetch
    t_sent,        \* per thread: the requests it sent, with the Host header sent
    w_pc,          \* position of the analyze_whale_changes call
    w_current,     \* its argument current_holdings
    w_previous,    \* its argument previous_holdings
    w_seed,        \* the string hash seed: decides the iteration order of all_cusips
    w_result       \* the dictionary it returns

fetchVars == <<use_proxies, headers_host, f_pc, f_url, f_idx, f_log, f_ret, f_caller>>
cikVars == <<c_pc, c_arg, c_ticker, c_ret, c_fetches>>
normVars == <<n_pc, n_in, n_once, n_twice>>
redlineVars == <<r_pc, r_current, r_previous, r_seed, r_result>>
filingsVars == <<g_pc, g_form, g_count, g_hint, g_local, g_input, g_log, g_ret>>
finVars == <<a_pc, a_facts, a_audit, a_stored, a_shown>>
holdVars == <<h_pc, h_xml, h_ret>>
extractVars == <<x_pc, x_html, x_ret>>
batchVars == <<b_pc, b_i, b_log, b_asked, b_saved>>
threadVars == <<t_pc, t_work, t_sent>>
whaleVars == <<w_pc, w_current, w_previous, w_seed, w_result>>
auditVars == <<finVars, holdVars, extractVars, batchVars, threadVars, whaleVars>>
coreVars == <<fetchVars, cikVars, normVars, redlineVars, filingsVars>>
vars == <<fetchVars, cikVars, normVars, redlineVars, filingsVars, auditVars>>

\* what the actions of one part of the program leave alone
notClient == <<normVars, redlineVars, filingsVars, auditVars>>
notNorm == <<fetchVars, cikVars, redlineVars, filingsVars, auditVars>>
notRedline == <<fetchVars, cikVars, normVars, filingsVars, auditVars>>
notFilings == <<fetchVars, cikVars, normVars, redlineVars, auditVars>>
notFin == <<coreVars, holdVars, extractVars, batchVars, threadVars, whaleVars>>
notHold == <<coreVars, finVars, extractVars, batchVars, threadVars, whaleVars>>
notExtract == <<coreVars, finVars, holdVars, batchVars, threadVars, whaleVars>>
notBatch == <<coreVars, finVars, holdVars, extractVars, threadVars, whaleVars>>
notThreads == <<cikVars, normVars, redlineVars, filingsVars,
                finVars, holdVars, extractVars, batchVars, whaleVars>>
notWhale == <<coreVars, finVars, holdVars, extractVars, batchVars, threadVars>>

\* Python's Optional: None, or a value
None == <<>>
Some(x) == <<x>>

\* the parts of the program a specification leaves out stay as constructed
FetchIdle ==
    /\ use_proxies = FALSE
    /\ headers_host = "www.sec.gov"
    /\ f_pc = "idle"
    /\ f_url = ""
    /\ f_idx = 1
    /\ f_log = <<>>
    /\ f_ret = None
    /\ f_caller = "nobody"

CikIdle ==
    /\ c_pc = "idle"
    /\ c_arg = <<>>
    /\ c_ticker = <<>>
    /\ c_ret = None
    /\ c_fetches = 0

NormIdle ==
    /\ n_pc = 0
    /\ n_in = <<>>
    /\ n_once = <<>>
    /\ n_twice = <<>>

NoResult ==
    [added_count |-> 0, removed_count |-> 0, escalations |-> <<>>,
     silent_deletions |-> <<>>, risk_score |-> 0]

RedlineIdle ==
    /\ r_pc = "idle"
    /\ r_current = <<>>
    /\ r_previous = <<>>
    /\ r_seed = 0
    /\ r_result = NoResult

FilingsIdle ==
    /\ g_pc = "idle"
    /\ g_form = <<>>
    /\ g_count = 0
    /\ g_hint = FALSE
    /\ g_local = None
    /\ g_input = None
    /\ g_log = <<>>
    /\ g_ret = <<>>

FinIdle ==
    /\ a_pc = "idle"
    /\ a_facts = None
    /\ a_audit = None
    /\ a_stored = None
    /\ a_shown = None

HoldIdle ==
    /\ h_pc = "idle"
    /\ h_xml = None
    /\ h_ret = <<>>

ExtractIdle ==
    /\ x_pc = "idle"
    /\ x_html = <<>>
    /\ x_ret = <<>>

BatchIdle ==
    /\ b_pc = "idle"
    /\ b_i = 1
    /\ b_log = <<>>
    /\ b_asked = <<>>
    /\ b_saved = None

\* the threads of a fan-out over one client
Threads == {1, 2}

ThreadsIdle ==
    /\ t_pc = [t \in Threads |-> "idle"]
    /\ t_work = [t \in Threads |-> <<>>]
    /\ t_sent = [t \in Threads |-> <<>>]

WhaleIdle ==
    /\ w_pc = "idle"
    /\ w_current = <<>>
    /\ w_previous = <<>>
    /\ w_seed = 0
    /\ w_result = None

AuditIdle == FinIdle /\ HoldIdle /\ ExtractIdle /\ BatchIdle /\ ThreadsIdle /\ WhaleIdle

CoreIdle == FetchIdle /\ CikIdle /\ NormIdle /\ RedlineIdle /\ FilingsIdle

---------------------------------------------------------------------------
(* Strings as sequences of characters.                                     *)

LowerLetters ==
    <<"a","b","c","d","e","f","g","h","i","j","k","l","m",
      "n","o","p","q","r","s","t","u","v","w","x","y","z">>

UpperLetters ==
    <<"A","B","C","D","E","F","G","H","I","J","K","L","M",
      "N","O","P","Q","R","S","T","U","V","W","X","Y","Z">>

DigitChars == {"0","1","2","3","4","5","6","7","8","9"}

\* the characters str.strip() and the regex class \s treat as whitespace
WhitespaceChars == {" ", "\t", "\n", "\r"}

\* str.upper(), one character
UpperChar(c) ==
    IF \E i \in 1..Len(LowerLetters) : LowerLetters[i] = c
    THEN UpperLetters[CHOOSE i \in 1..Len(LowerLetters) : LowerLetters[i] = c]
    ELSE c

\* str.lower(), one character
LowerChar(c) ==
    IF \E i \in 1..Len(UpperLetters) : UpperLetters[i] = c
    THEN LowerLetters[CHOOSE i \in 1..Len(UpperLetters) : UpperLetters[i] = c]
    ELSE c

StrUpper(s) == [i \in 1..Len(s) |-> UpperChar(s[i])]

StrLower(s) == [i \in 1..Len(s) |-> LowerChar(s[i])]

\* str.strip(): leading and trailing whitespace removed
StrStrip(s) ==
    LET keep == {i \in 1..Len(s) : s[i] \notin WhitespaceChars}
    IN  IF keep = {} THEN <<>>
        ELSE LET lo == CHOOSE i \in keep : \A j \in keep : i <= j
                 hi == CHOOSE i \in keep : \A j \in keep : j <= i
             IN  SubSeq(s, lo, hi)

\* str.replace(old, new) for single characters
StrReplaceChar(s, old, new) == [i \in 1..Len(s) |-> IF s[i] = old THEN new ELSE s[i]]

\* str.zfill(width): left-padded with "0" (the values here carry no sign)
RECURSIVE StrZfill(_, _)
StrZfill(s, width) == IF Len(s) >= width THEN s ELSE StrZfill(<<"0">> \o s, width)

\* s == prefix
StrEquals(s, prefix) == s = prefix

\* str.startswith(prefix)
StrStartsWith(s, prefix) ==
    /\ Len(prefix) <= Len(s)
    /\ SubSeq(s, 1, Len(prefix)) = prefix

---------------------------------------------------------------------------
(* SECClient._fetch                                                        *)

\* the three relay endpoints, in list order
PROXIES == <<"allorigins", "corsproxy", "thingproxy">>

\* a relay response is accepted only with a body longer than this
MinBodyLen == 100

WwwUrl == "https://www.sec.gov/files/company_tickers.json"
DataUrl == "https://data.sec.gov/submissions/CIK0000320193.json"
Urls == {WwwUrl, DataUrl}

\* "data.sec.gov" in url
IsDataUrl(url) == url = DataUrl

HttpStatuses == {200, 404}
BodyLens == {0, MinBodyLen, MinBodyLen + 1}

\* what one requests.get call can do: answer, or raise
Answers == [kind : {"response"}, status : HttpStatuses, len : BodyLens]
Outcomes == Answers \cup {[kind |-> "exception", status |-> 0, len |-> 0]}

\* full_url of a relay request: only the first endpoint gets the quoted url
FullUrl(proxy, url) ==
    IF proxy = "allorigins"
    THEN [proxy |-> proxy, target |-> url, quoted |-> TRUE]
    ELSE [proxy |-> proxy, target |-> url, quoted |-> FALSE]

\* a relay loop that forgets the test of the body length
ProxyAcceptsAnyBody(o) == o.kind = "response" /\ o.status = 200

\* the acceptance test of the relay loop
ProxyAccepts(o) == o.kind = "response" /\ o.status = 200 /\ o.len > MinBodyLen

\* the acceptance test of the direct branch
DirectAccepts(o) == o.kind = "response" /\ o.status = 200

\* a _fetch without its try blocks
FetchCatchesNothing == FALSE

\* an exception raised by requests.get inside the try block is caught
FetchCatches == TRUE

FetchInit ==
    /\ use_proxies \in BOOLEAN
    /\ headers_host = "www.sec.gov"
    /\ f_pc = "idle"
    /\ f_url = ""
    /\ f_idx = 1
    /\ f_log = <<>>
    /\ f_ret = None
    /\ f_caller = "nobody"

\* entry of _fetch(url): the mode decides the branch
FetchEnter(url, caller) ==
    /\ f_url' = url
    /\ f_caller' = caller
    /\ f_idx' = 1
    /\ f_log' = <<>>
    /\ f_ret' = None
    /\ f_pc' = IF use_proxies THEN "proxy" ELSE "direct"
    /\ UNCHANGED <<use_proxies, headers_host>>

\* a caller other than get_cik (download_filing, get_submissions, ...) calls _fetch;
\* the frame of an earlier get_cik call is gone
FetchCall ==
    /\ f_pc \in {"idle", "returned"}
    /\ c_pc \in {"idle", "returned"}
    /\ \E url \in Urls : FetchEnter(url, "user")
    /\ c_pc' = "idle"
    /\ c_arg' = <<>>
    /\ c_ticker' = <<>>
    /\ c_ret' = None
    /\ c_fetches' = 0
    /\ UNCHANGED notClient

\* the direct branch: Host header set from the url, one request, no retry
FetchDirect ==
    /\ f_pc = "direct"
    /\ \E o \in Outcomes :
        LET host == IF IsDataUrl(f_url) THEN "data.sec.gov" ELSE "www.sec.gov"
            req == [endpoint |-> "direct", host |-> host, full_url |-> f_url, outcome |-> o]
        IN  /\ headers_host' = host
            /\ f_log' = Append(f_log, req)
            /\ IF o.kind = "exception" /\ ~FetchCatches
               THEN f_pc' = "raised" /\ f_ret' = None
               ELSE /\ f_pc' = "returned"
                    /\ f_ret' = IF DirectAccepts(o) THEN Some(o) ELSE None
    /\ UNCHANGED <<use_proxies, f_url, f_idx, f_caller, cikVars, notClient>>

\* one iteration of the relay loop: the Host header is dropped from a copy
FetchProxy ==
    /\ f_pc = "proxy"
    /\ f_idx <= Len(PROXIES)
    /\ \E o \in Outcomes :
        LET req == [endpoint |-> PROXIES[f_idx], host |-> "absent",
                    full_url |-> FullUrl(PROXIES[f_idx], f_url), outcome |-> o]
        IN  /\ f_log' = Append(f_log, req)
            /\ IF o.kind = "exception" /\ ~FetchCatches
               THEN f_pc' = "raised" /\ f_ret' = None /\ f_idx' = f_idx
               ELSE IF ProxyAccepts(o)
               THEN f_pc' = "returned" /\ f_ret' = Some(o) /\ f_idx' = f_idx
               ELSE f_pc' = "proxy" /\ f_ret' = None /\ f_idx' = f_idx + 1
    /\ UNCHANGED <<use_proxies, headers_host, f_url, f_caller, cikVars, notClient>>

\* the relay list is exhausted: "All proxies failed!"
FetchProxyExhausted ==
    /\ f_pc = "proxy"
    /\ f_idx > Len(PROXIES)
    /\ f_pc' = "returned"
    /\ f_ret' = None
    /\ UNCHANGED <<use_proxies, headers_host, f_url, f_idx, f_log, f_caller, cikVars, notClient>>

---------------------------------------------------------------------------
(* SECClient.get_cik                                                       *)

\* entries of CIK_MAP (a part of the table: short and long identifiers, a
\* one-letter key, the keys with a dash), as <<ticker, identifier>>
CIK_MAP ==
    { <<<<"A","A","P","L">>, <<"3","2","0","1","9","3">>>>,
      <<<<"V">>, <<"1","4","0","3","1","6","1">>>>,
      <<<<"A","B","T">>, <<"1","8","0","0">>>>,
      <<<<"F">>, <<"3","7","9","9","6">>>>,
      <<<<"B","R","K","-","A">>, <<"1","0","6","7","9","8","3">>>>,
      <<<<"B","R","K","-","B">>, <<"1","0","6","7","9","8","3">>>>,
      <<<<"B","R","K","B">>, <<"1","0","6","7","9","8","3">>>> }

CikKeys == {e[1] : e \in CIK_MAP}

\* CIK_MAP[ticker]
CikLookup(ticker) == (CHOOSE e \in CIK_MAP : e[1] = ticker)[2]

\* the width of a padded identifier
CikWidth == 10

\* ticker.upper().strip().replace(".", "-")
NormalizeTicker(t) == StrReplaceChar(StrStrip(StrUpper(t)), ".", "-")

\* a get_cik that asks the remote directory first
CuratedHitNever(ticker) == FALSE

\* ticker in self.CIK_MAP
CuratedHit(ticker) == ticker \in CikKeys

\* the ticker arguments tried
RawTickers ==
    { <<"a","a","p","l">>, <<" ","A","A","P","L","\n">>, <<"b","r","k",".","b">>, <<"B","r","k","-","A">>,
      <<"a","b","t">>, <<"v"," ">>, <<"f">>, <<"Z","Z">>, <<"a",".","z">> }

\* records of the remote directory: well-formed, or lacking "cik_str"
DirEntries ==
    { [ticker |-> <<"Z","Z">>, cik_str |-> <<"1","2","3","4">>],
      [ticker |-> <<"A","A","P","L">>, cik_str |-> <<"9","9","9">>],
      [ticker |-> <<"A","-","Z">>, cik_str |-> <<"1","2","3","4","5","6","7","8","9","0","1">>],
      [ticker |-> <<"Z","Z">>] }

\* longest remote directory tried
MaxDirLen == 2

RECURSIVE SeqsUpTo(_, _)
SeqsUpTo(S, n) ==
    IF n = 0 THEN {<<>>}
    ELSE LET shorter == SeqsUpTo(S, n - 1)
         IN  shorter \cup {Append(q, x) : q \in {r \in shorter : Len(r) = n - 1}, x \in S}

\* resp.json(): a body that does not parse, or the directory's records in order
Directories ==
    {[parsed |-> FALSE]}
        \cup {[parsed |-> TRUE, entries |-> d] : d \in SeqsUpTo(DirEntries, MaxDirLen)}

\* the scan of the directory; the bare except turns every error into None
RECURSIVE ScanDirectory(_, _)
ScanDirectory(dir, ticker) ==
    IF dir = <<>> THEN None
    ELSE LET entry == Head(dir)
         IN  IF entry.ticker = ticker
             THEN IF "cik_str" \in DOMAIN entry
                  THEN Some(StrZfill(entry.cik_str, CikWidth))
                  ELSE None
             ELSE ScanDirectory(Tail(dir), ticker)

CikInit == CikIdle

\* get_cik(ticker) with a ticker of the curated map: returns at once, and no
\* _fetch frame is opened (the frame of an earlier _fetch call is gone)
CikCallCurated ==
    /\ c_pc \in {"idle", "returned"}
    /\ f_pc \in {"idle", "returned"}
    /\ \E t \in RawTickers :
        /\ CuratedHit(NormalizeTicker(t))
        /\ c_arg' = t
        /\ c_ticker' = NormalizeTicker(t)
        /\ c_ret' = Some(StrZfill(CikLookup(NormalizeTicker(t)), CikWidth))
    /\ c_pc' = "returned"
    /\ c_fetches' = 0
    /\ f_pc' = "idle"
    /\ f_url' = ""
    /\ f_idx' = 1
    /\ f_log' = <<>>
    /\ f_ret' = None
    /\ f_caller' = "nobody"
    /\ UNCHANGED <<use_proxies, headers_host, notClient>>

\* get_cik(ticker) with any other ticker: the remote directory is fetched
CikCallRemote ==
    /\ c_pc \in {"idle", "returned"}
    /\ f_pc \in {"idle", "returned"}
    /\ \E t \in RawTickers :
        /\ ~CuratedHit(NormalizeTicker(t))
        /\ c_arg' = t
        /\ c_ticker' = NormalizeTicker(t)
    /\ c_ret' = None
    /\ c_pc' = "fetching"
    /\ c_fetches' = 1
    /\ FetchEnter(WwwUrl, "get_cik")
    /\ UNCHANGED notClient

\* get_cik after its _fetch returned: scan the directory, or give up
CikScan ==
    /\ c_pc = "fetching"
    /\ f_pc = "returned"
    /\ IF f_ret = None
       THEN c_ret' = None
       ELSE \E dir \in Directories :
                c_ret' = IF dir.parsed THEN ScanDirectory(dir.entries, c_ticker) ELSE None
    /\ c_pc' = "returned"
    /\ UNCHANGED <<c_arg, c_ticker, c_fetches, fetchVars, notClient>>

---------------------------------------------------------------------------
(* The client: _fetch and get_cik on one SECClient.                        *)

InitClient == FetchInit /\ CikInit /\ NormIdle /\ RedlineIdle /\ FilingsIdle /\ AuditIdle

NextClient ==
    \/ FetchCall
    \/ FetchDirect
    \/ FetchProxy
    \/ FetchProxyExhausted
    \/ CikCallCurated
    \/ CikCallRemote
    \/ CikScan

SpecClient == InitClient /\ [][NextClient]_vars

---------------------------------------------------------------------------
(* _normalize_text and _split_sentences                                    *)

\* the regex class \w: letters, digits and the underscore
WordChars ==
    {LowerLetters[i] : i \in 1..Len(LowerLetters)}
        \cup {UpperLetters[i] : i \in 1..Len(UpperLetters)}
        \cup DigitChars \cup {"_"}

\* the punctuation the second substitution keeps: . , ; : ' " -
KeptPunctuation == {".", ",", ";", ":", "'", "\"", "-"}

\* re.sub(r'\s+', ' ', text): every run of whitespace becomes one space
CollapseWhitespace(s) ==
    LET marked == [i \in 1..Len(s) |->
                      [c |-> IF s[i] \in WhitespaceChars THEN " " ELSE s[i],
                       inRun |-> /\ i > 1
                                 /\ s[i] \in WhitespaceChars
                                 /\ s[i - 1] \in WhitespaceChars]]
        kept == SelectSeq(marked, LAMBDA m : ~m.inRun)
    IN  [i \in 1..Len(kept) |-> kept[i].c]

\* re.sub(r'[^\w\s.,;:\'\"-]', '', text): every other character is removed
StripOtherChars(s) ==
    SelectSeq(s, LAMBDA c : c \in WordChars \/ c \in WhitespaceChars \/ c \in KeptPunctuation)

\* _normalize_text: the two substitutions in the order of the code, then
\* lower() and strip()
NormalizeText(text) == StrStrip(StrLower(StripOtherChars(CollapseWhitespace(text))))

\* the characters re.split(r'[.!?]+', text) splits on
SentenceEnds == {".", "!", "?"}

\* the pieces between the runs of sentence ends, in order, from position from
RECURSIVE SplitPieces(_, _)
SplitPieces(s, from) ==
    IF from > Len(s) THEN <<>>
    ELSE LET ends == {j \in from..Len(s) : s[j] \in SentenceEnds}
             stop == IF ends = {} THEN Len(s) + 1
                     ELSE CHOOSE j \in ends : \A k \in ends : j <= k
         IN  IF stop = from THEN SplitPieces(s, from + 1)
             ELSE <<SubSeq(s, from, stop - 1)>> \o SplitPieces(s, stop + 1)

\* a fragment is kept as a sentence only when longer than this after strip()
MinSentenceLen == 20

\* _split_sentences: the stripped pieces longer than 20 characters
SplitSentences(text) ==
    LET stripped == [i \in 1..Len(SplitPieces(text, 1)) |-> StrStrip(SplitPieces(text, 1)[i])]
    IN  SelectSeq(stripped, LAMBDA p : Len(p) > MinSentenceLen)

\* the characters of the texts tried: a lower-case and an upper-case letter,
\* two kinds of whitespace, a kept and a removed punctuation mark
NormAlphabet == {"a", "B", " ", "\n", ".", "!"}

\* longest text tried
MaxTextLen == 5

InitNormalize ==
    /\ n_pc = 0
    /\ n_in \in SeqsUpTo(NormAlphabet, MaxTextLen)
    /\ n_once = <<>>
    /\ n_twice = <<>>
    /\ FetchIdle /\ CikIdle /\ RedlineIdle /\ FilingsIdle /\ AuditIdle

\* x -> _normalize_text(x)
NormalizeOnce ==
    /\ n_pc = 0
    /\ n_once' = NormalizeText(n_in)
    /\ n_pc' = 1
    /\ UNCHANGED <<n_in, n_twice, notNorm>>

\* _normalize_text applied to its own result
NormalizeTwice ==
    /\ n_pc = 1
    /\ n_twice' = NormalizeText(n_once)
    /\ n_pc' = 2
    /\ UNCHANGED <<n_in, n_once, notNorm>>

NextNormalize == NormalizeOnce \/ NormalizeTwice

SpecNormalize == InitNormalize /\ [][NextNormalize]_vars

\* C8: _normalize_text is idempotent: normalizing a normalized text changes
\* nothing.  (The code removes characters after it has collapsed the
\* whitespace, so a removed character between two spaces leaves a double
\* space that only the second application collapses.)
Cex_C8_NormalizeIdempotent == n_pc = 2 => n_twice = n_once

---------------------------------------------------------------------------
(* analyze_textual_changes                                                 *)

\* risk_keywords, in list order
risk_keywords ==
    <<
      <<"g","o","i","n","g"," ","c","o","n","c","e","r","n">>,
      <<"s","u","b","s","t","a","n","t","i","a","l"," ","d","o","u","b","t">>,
      <<"m","a","t","e","r","i","a","l"," ","w","e","a","k","n","e","s","s">>,
      <<"l","i","q","u","i","d","i","t","y"," ","r","i","s","k">>,
      <<"d","e","f","a","u","l","t">>,
      <<"b","a","n","k","r","u","p","t","c","y">>,
      <<"i","m","p","a","i","r","m","e","n","t">>,
      <<"r","e","s","t","r","u","c","t","u","r","i","n","g">>,
      <<"l","a","y","o","f","f","s">>,
      <<"w","o","r","k","f","o","r","c","e"," ","r","e","d","u","c","t","i","o","n">>
    >>

\* keyword in sentence: a substring test
Contains(s, k) ==
    \E i \in 1..(Len(s) - Len(k) + 1) : \A j \in 1..Len(k) : s[i + j - 1] = k[j]

\* an inner loop without its break, keeping the last keyword found
LastKeyword(sentence) ==
    LET hits == {k \in 1..Len(risk_keywords) : Contains(StrLower(sentence), risk_keywords[k])}
    IN  IF hits = {} THEN 0 ELSE CHOOSE k \in hits : \A h \in hits : h <= k

\* the inner loop with its break: the index in risk_keywords of the first
\* keyword the sentence contains, 0 when it contains none
FirstKeyword(sentence) ==
    LET hits == {k \in 1..Len(risk_keywords) : Contains(StrLower(sentence), risk_keywords[k])}
    IN  IF hits = {} THEN 0 ELSE CHOOSE k \in hits : \A h \in hits : k <= h

\* an entry keeps at most this many characters of its sentence
TextCut == 200

\* the returned lists keep at most this many entries
MaxListed == 10

\* s[:n]
Prefix(s, n) == SubSeq(s, 1, IF Len(s) < n THEN Len(s) ELSE n)

\* the entries appended while the sentences are visited in the given order
RECURSIVE KeywordEntries(_)
KeywordEntries(sentences) ==
    IF sentences = <<>> THEN <<>>
    ELSE LET k == FirstKeyword(Head(sentences))
         IN  IF k = 0 THEN KeywordEntries(Tail(sentences))
             ELSE <<[keyword |-> risk_keywords[k], text |-> Prefix(Head(sentences), TextCut)]>>
                      \o KeywordEntries(Tail(sentences))

\* the elements of a sequence, as a set
Range(q) == {q[i] : i \in 1..Len(q)}

\* some enumeration of a set
RECURSIVE SetToSeq(_)
SetToSeq(S) ==
    IF S = {} THEN <<>>
    ELSE LET x == CHOOSE y \in S : TRUE IN <<x>> \o SetToSeq(S \ {x})

\* the order in which a for loop visits a set of strings: it depends on the
\* hash seed of the process; the seeds tried give the rotations of one order
IterationOrder(S, seed) ==
    LET q == SetToSeq(S)
        n == Len(q)
    IN  IF n = 0 THEN <<>> ELSE [i \in 1..n |-> q[((i - 1 + seed) % n) + 1]]

\* analyze_textual_changes, without the diff preview (no other field reads it)
AnalyzeTextualChanges(current_text, previous_text, seed) ==
    LET current == NormalizeText(current_text)
        previous == NormalizeText(previous_text)
        curr_sentences == Range(SplitSentences(current))
        prev_sentences == Range(SplitSentences(previous))
        added == curr_sentences \ prev_sentences
        removed == prev_sentences \ curr_sentences
        escalations == KeywordEntries(IterationOrder(added, seed))
        silent_deletions == KeywordEntries(IterationOrder(removed, seed))
    IN  [added_count |-> Cardinality(added),
         removed_count |-> Cardinality(removed),
         escalations |-> Prefix(escalations, MaxListed),
         silent_deletions |-> Prefix(silent_deletions, MaxListed),
         risk_score |-> Len(escalations) * 2 + Len(silent_deletions)]

\* the sentence of the spec's example: it holds two keywords
ExampleSentence ==
    <<"T","h","e"," ","c","o","m","p","a","n","y"," ","d","i","s","c","l","o","s","e","d",
      " ","s","u","b","s","t","a","n","t","i","a","l"," ","d","o","u","b","t"," ","a","b",
      "o","u","t"," ","i","t","s"," ","a","b","i","l","i","t","y"," ","t","o"," ","c","o",
      "n","t","i","n","u","e"," ","a","s"," ","a"," ","g","o","i","n","g"," ","c","o","n",
      "c","e","r","n"," ","t","h","i","s"," ","q","u","a","r","t","e","r">>

\* a sentence without any keyword
PlainSentence ==
    <<"R","e","v","e","n","u","e"," ","g","r","e","w"," ","i","n"," ","a","l","l"," ","o",
      "f"," ","o","u","r"," ","s","e","g","m","e","n","t","s">>

\* a keyword on its own: too short to count as a sentence
ShortFragment ==
    <<"L","a","y","o","f","f","s">>

\* sentences with one or two keywords each, as filers write them
KeywordBodies ==
    <<
      <<"W","e"," ","m","a","y"," ","D","E","F","A","U","L","T"," ","o","n"," ","o","u",
        "r"," ","l","o","a","n","s"," ","(","N","o","t","e"," ","4",")">>,
      <<"W","e"," ","r","e","c","o","r","d","e","d"," ","a","n"," ","i","m","p","a","i",
        "r","m","e","n","t"," ","c","h","a","r","g","e">>,
      <<"A"," ","r","e","s","t","r","u","c","t","u","r","i","n","g"," ","a","n","d"," ",
        "w","o","r","k","f","o","r","c","e"," ","r","e","d","u","c","t","i","o","n">>,
      <<"M","a","n","a","g","e","m","e","n","t"," ","s","a","w"," ","a"," ","m","a","t",
        "e","r","i","a","l"," ","w","e","a","k","n","e","s","s">>
    >>

\* the i-th sentence written: from the fourth on, a keyword body with a tag
\* that makes it differ from every other one
Sentence(i) ==
    CASE i = 1 -> ExampleSentence
      [] i = 2 -> PlainSentence
      [] i = 3 -> ShortFragment
      [] OTHER -> KeywordBodies[((i - 4) % Len(KeywordBodies)) + 1]
                      \o <<" ", "i", "t", "e", "m", " ", LowerLetters[i]>>

\* the text made of the sentences lo..hi, each closed by a full stop
RECURSIVE Document(_, _)
Document(lo, hi) ==
    IF lo > hi THEN <<>>
    ELSE Sentence(lo) \o <<".", IF lo % 2 = 0 THEN "\n" ELSE " ">> \o Document(lo + 1, hi)

\* number of sentences written
MaxSentences == 14

\* number of hash seeds tried
MaxSeed == 1

InitRedline ==
    /\ r_pc = "idle"
    /\ \E n \in 0..MaxSentences : r_current = Document(1, n)
    /\ \E m \in 1..(MaxSentences + 1) : r_previous = Document(m, MaxSentences)
    /\ r_seed \in 0..MaxSeed
    /\ r_result = NoResult
    /\ FetchIdle /\ CikIdle /\ NormIdle /\ FilingsIdle /\ AuditIdle

\* the call analyze_textual_changes(current_text, previous_text)
Analyze ==
    /\ r_pc = "idle"
    /\ r_result' = AnalyzeTextualChanges(r_current, r_previous, r_seed)
    /\ r_pc' = "done"
    /\ UNCHANGED <<r_current, r_previous, r_seed, notRedline>>

NextRedline == Analyze

SpecRedline == InitRedline /\ [][NextRedline]_vars

---------------------------------------------------------------------------
(* SECClient.get_filings and its strategies                                *)

\* form codes, as the archive writes them
Form10K ==
    <<"1","0","-","K">>

Form10KA ==
    <<"1","0","-","K","/","A">>

Form10Q ==
    <<"1","0","-","Q">>

Form13F ==
    <<"1","3","-","F">>

Form13FHR ==
    <<"1","3","F","-","H","R">>

\* accession numbers
Acc1 ==
    <<"0","0","0","0","3","2","0","1","9","3","-","2","4","-","0","0","0","1","2","3">>

Acc2 ==
    <<"0","0","0","0","3","2","0","1","9","3","-","2","4","-","0","0","0","1","0","0">>

Acc3 ==
    <<"0","0","0","0","3","2","0","1","9","3","-","2","3","-","0","0","0","0","7","7">>

\* links of the filings table and of feed entries
HrefIndex1 ==
    <<"/","A","r","c","h","i","v","e","s","/","e","d","g","a","r","/","d","a","t","a","/",
      "3","2","0","1","9","3","/","0","0","0","0","3","2","0","1","9","3","2","4","0","0",
      "0","1","2","3","/","0","0","0","0","3","2","0","1","9","3","-","2","4","-","0","0",
      "0","1","2","3","-","i","n","d","e","x",".","h","t","m">>

HrefQuery2 ==
    <<"/","c","g","i","-","b","i","n","/","b","r","o","w","s","e","-","e","d","g","a","r",
      "?","a","c","t","i","o","n","=","g","e","t","c","o","m","p","a","n","y","&","a","c",
      "c","e","s","s","i","o","n","_","n","u","m","b","e","r","=","0","0","0","0","3","2",
      "0","1","9","3","-","2","4","-","0","0","0","1","0","0">>

HrefIndex3 ==
    <<"/","A","r","c","h","i","v","e","s","/","e","d","g","a","r","/","d","a","t","a","/",
      "3","2","0","1","9","3","/","0","0","0","0","3","2","0","1","9","3","2","3","0","0",
      "0","0","7","7","/","0","0","0","0","3","2","0","1","9","3","-","2","3","-","0","0",
      "0","0","7","7","-","i","n","d","e","x",".","h","t","m">>

HrefPlain ==
    <<"/","c","g","i","-","b","i","n","/","b","r","o","w","s","e","-","e","d","g","a","r",
      "?","a","c","t","i","o","n","=","g","e","t","c","o","m","p","a","n","y">>

\* dates
Date1 ==
    <<"2","0","2","4","-","1","1","-","0","1">>

Date2 ==
    <<"2","0","2","4","-","0","8","-","0","2">>

Updated1 ==
    <<"2","0","2","4","-","1","1","-","0","1","T","1","6",":","3","0",":","4","0","-","0",
      "4",":","0","0">>

DateUnknown ==
    <<"U","n","k","n","o","w","n">>

\* document names
DocMain ==
    <<"a","a","p","l","-","2","0","2","4","0","9","2","8",".","h","t","m">>

DocOther ==
    <<"R","2",".","h","t","m">>

DotHtm ==
    <<".","h","t","m">>

\* the cik argument, as get_cik returns it
CikPadded ==
    <<"0","0","0","0","3","2","0","1","9","3">>

\* cik.lstrip("0")
RECURSIVE StrLstripZeros(_)
StrLstripZeros(s) ==
    IF s # <<>> /\ Head(s) = "0" THEN StrLstripZeros(Tail(s)) ELSE s

\* str.replace("-", ""): a character removed
StrRemoveChar(s, c) == SelectSeq(s, LAMBDA x : x # c)

\* the pattern \d{10}-\d{2}-\d{6} matches s at position i
AccessionAt(s, i) ==
    /\ i >= 1
    /\ i + 19 <= Len(s)
    /\ \A j \in 0..9 : s[i + j] \in DigitChars
    /\ s[i + 10] = "-"
    /\ \A j \in 11..12 : s[i + j] \in DigitChars
    /\ s[i + 13] = "-"
    /\ \A j \in 14..19 : s[i + j] \in DigitChars

\* re.search(r'(\d{10}-\d{2}-\d{6})', href): group 1 of the leftmost match
SearchAccession(href) ==
    LET at == {i \in 1..Len(href) : AccessionAt(href, i)}
    IN  IF at = {} THEN None
        ELSE LET i == CHOOSE k \in at : \A h \in at : k <= h
             IN  Some(SubSeq(href, i, i + 19))

\* re.search(r'/(\d{10}-\d{2}-\d{6})', href): the match must follow a slash
SearchSlashAccession(href) ==
    LET at == {i \in 2..Len(href) : href[i - 1] = "/" /\ AccessionAt(href, i)}
    IN  IF at = {} THEN None
        ELSE LET i == CHOOSE k \in at : \A h \in at : k <= h
             IN  Some(SubSeq(href, i, i + 19))

\* the url of a document of the archive, by its parts
ArchiveUrl(cik_clean, acc_clean, doc) ==
    [kind |-> "archive", cik |-> cik_clean, folder |-> acc_clean, doc |-> doc]

\* the url of a filing's folder
FolderUrl(cik_clean, acc_clean) ==
    [kind |-> "archive", cik |-> cik_clean, folder |-> acc_clean, doc |-> <<>>]

\* the url "DEMO" of the placeholder descriptors
DemoUrl == [kind |-> "DEMO", cik |-> <<>>, folder |-> <<>>, doc |-> <<>>]

\* a filing descriptor: the dictionary every strategy builds
Descriptor(form, acc, acc_clean, primary_doc, date, url, folder_url) ==
    [form |-> form, accession |-> acc, accession_clean |-> acc_clean,
     primary_doc |-> primary_doc, date |-> date, url |-> url, folder_url |-> folder_url]

\* _get_primary_doc_from_index, on what the fetch of the index page gave:
\* typed_link is the last path segment of the link of the first row whose type
\* names 10-k, 10-q, 8-k or 13-f; htm_link that of the first .htm link that is
\* no index
PrimaryDocFromIndex(index, acc) ==
    IF ~index.available THEN acc \o DotHtm
    ELSE IF index.typed_link # None THEN index.typed_link[1]
    ELSE IF index.htm_link # None THEN index.htm_link[1]
    ELSE acc \o DotHtm

\* the loop of get_filings_via_html over the rows below the header row
RECURSIVE HtmlLoop(_, _, _, _, _)
HtmlLoop(rows, form_type, count, cik_clean, filings) ==
    IF rows = <<>> THEN filings
    ELSE LET row == Head(rows)
             rest == Tail(rows)
             acc_match == IF row.href = None THEN None ELSE SearchAccession(row.href[1])
         IN  IF row.cells < 4 \/ ~StrStartsWith(row.form, form_type) \/ acc_match = None
             THEN HtmlLoop(rest, form_type, count, cik_clean, filings)
             ELSE LET acc == acc_match[1]
                      acc_clean == StrRemoveChar(acc, "-")
                      primary_doc == PrimaryDocFromIndex(row.index, acc_clean)
                      found == Append(filings,
                                   Descriptor(row.form, acc, acc_clean, primary_doc, row.date,
                                              ArchiveUrl(cik_clean, acc_clean, primary_doc),
                                              FolderUrl(cik_clean, acc_clean)))
                  IN  IF primary_doc = <<>>
                      THEN HtmlLoop(rest, form_type, count, cik_clean, filings)
                      ELSE IF Len(found) >= count THEN found
                      ELSE HtmlLoop(rest, form_type, count, cik_clean, found)

\* get_filings_via_html, on what the fetch of the filings page gave
GetFilingsViaHtml(page, cik, form_type, count) ==
    IF page.kind # "table" \/ page.rows = <<>> THEN <<>>
    ELSE HtmlLoop(Tail(page.rows), form_type, count, StrLstripZeros(cik), <<>>)

\* the loop of get_filings_via_rss over the entries; an <updated> element
\* without text raises inside the try block, which ends the loop and keeps
\* what was found
RECURSIVE RssLoop(_, _, _, _, _)
RssLoop(entries, form_type, count, cik_clean, filings) ==
    IF entries = <<>> THEN filings
    ELSE LET entry == Head(entries)
             rest == Tail(entries)
             acc_match == IF entry.link = None THEN None ELSE SearchSlashAccession(entry.link[1])
         IN  IF acc_match = None
             THEN RssLoop(rest, form_type, count, cik_clean, filings)
             ELSE IF entry.updated # None /\ entry.updated[1] = None
             THEN filings
             ELSE LET acc == acc_match[1]
                      acc_clean == StrRemoveChar(acc, "-")
                      date == IF entry.updated = None THEN DateUnknown
                              ELSE Prefix(entry.updated[1][1], 10)
                      found == Append(filings,
                                   Descriptor(form_type, acc, acc_clean, acc_clean \o DotHtm, date,
                                              ArchiveUrl(cik_clean, acc_clean, acc_clean \o DotHtm),
                                              FolderUrl(cik_clean, acc_clean)))
                  IN  IF Len(found) >= count THEN found
                      ELSE RssLoop(rest, form_type, count, cik_clean, found)

\* get_filings_via_rss, on what the fetch of the feed gave
GetFilingsViaRss(feed, cik, form_type, count) ==
    IF feed.kind # "feed" THEN <<>>
    ELSE RssLoop(feed.entries, form_type, count, StrLstripZeros(cik), <<>>)

\* the loop of method 3 over recent.form, from index i; reading past the end
\* of one of the other three lists raises
RECURSIVE ApiLoop(_, _, _, _, _, _)
ApiLoop(recent, i, form_type, count, cik_clean, filings) ==
    IF i > Len(recent.form) THEN [raised |-> FALSE, filings |-> filings]
    ELSE IF ~(StrStartsWith(recent.form[i], form_type) /\ Len(filings) < count)
    THEN ApiLoop(recent, i + 1, form_type, count, cik_clean, filings)
    ELSE IF \/ i > Len(recent.accessionNumber)
            \/ i > Len(recent.primaryDocument)
            \/ i > Len(recent.filingDate)
    THEN [raised |-> TRUE, filings |-> filings]
    ELSE LET acc == StrRemoveChar(recent.accessionNumber[i], "-")
         IN  ApiLoop(recent, i + 1, form_type, count, cik_clean,
                     Append(filings,
                            Descriptor(recent.form[i], recent.accessionNumber[i], acc,
                                       recent.primaryDocument[i], recent.filingDate[i],
                                       ArchiveUrl(cik_clean, acc, recent.primaryDocument[i]),
                                       FolderUrl(cik_clean, acc))))

\* method 3 of get_filings, on what get_submissions gave
GetFilingsViaApi(subs, cik, form_type, count) ==
    IF subs = None THEN [raised |-> FALSE, filings |-> <<>>]
    ELSE ApiLoop(subs[1], 1, form_type, count, StrLstripZeros(cik), <<>>)

\* the literals of the two placeholder descriptors
AccClean1 ==
    <<"0","0","0","0","3","2","0","1","9","3","2","4","0","0","0","1","2","3">>

AccClean2 ==
    <<"0","0","0","0","3","2","0","1","9","3","2","4","0","0","0","1","0","0">>

DateDemoPrev ==
    <<"2","0","2","4","-","0","8","-","0","1">>

DemoPrefix ==
    <<"d","e","m","o","-">>

PrevSuffix ==
    <<"-","p","r","e","v">>

\* the two placeholder descriptors of _get_demo_filings
DemoPair(form_type) ==
    << Descriptor(form_type, Acc1, AccClean1,
                  DemoPrefix \o StrLower(form_type) \o DotHtm,
                  Date1, DemoUrl, DemoUrl),
       Descriptor(form_type, Acc2, AccClean2,
                  DemoPrefix \o StrLower(form_type) \o PrevSuffix \o DotHtm,
                  DateDemoPrev, DemoUrl, DemoUrl) >>

\* the placeholder strategy supplying nothing
NoDemoFilings(form_type, count) == <<>>

\* a _get_demo_filings that forgets the cut to count
GetDemoFilingsUncut(form_type, count) ==
    IF form_type \in {Form10K, Form10Q} THEN DemoPair(form_type) ELSE <<>>

\* _get_demo_filings: the placeholders for 10-K and 10-Q, cut to count
GetDemoFilings(form_type, count) ==
    IF form_type \in {Form10K, Form10Q} THEN Prefix(DemoPair(form_type), count) ELSE <<>>

\* a cascade that asks the submissions API before the feed
StrategyAfterSwapped(strategy) ==
    CASE strategy = "html" -> "api"
      [] strategy = "api" -> "rss"
      [] strategy = "rss" -> "demo"

\* the order of the methods 1 to 4 of get_filings
StrategyAfter(strategy) ==
    CASE strategy = "html" -> "rss"
      [] strategy = "rss" -> "api"
      [] strategy = "api" -> "demo"

\* the form types a caller asks for
FormTypes == {Form10K, Form10Q, Form13F}

\* largest count asked for
MaxCount == 2

\* most rows of a filings table, entries of a feed, filings of a submissions
\* record or of a stored list
MaxRows == 2

\* what the fetch of a filing's index page can give
IndexPages ==
    { [available |-> FALSE, typed_link |-> None, htm_link |-> None],
      [available |-> TRUE, typed_link |-> Some(DocMain), htm_link |-> None],
      [available |-> TRUE, typed_link |-> Some(<<>>), htm_link |-> Some(DocOther)],
      [available |-> TRUE, typed_link |-> None, htm_link |-> Some(DocOther)],
      [available |-> TRUE, typed_link |-> None, htm_link |-> None] }

IndexNamed == [available |-> TRUE, typed_link |-> Some(DocMain), htm_link |-> None]
IndexDown == [available |-> FALSE, typed_link |-> None, htm_link |-> None]
IndexEmptyName == [available |-> TRUE, typed_link |-> Some(<<>>), htm_link |-> Some(DocOther)]
IndexHtmOnly == [available |-> TRUE, typed_link |-> None, htm_link |-> Some(DocOther)]

\* the header row of a filings table
HeaderRow == [cells |-> 0, form |-> <<>>, href |-> None, date |-> <<>>, index |-> IndexDown]

\* rows of the filings table, each with what the fetch of its index page gives
HtmlRows ==
    { [cells |-> 5, form |-> Form10K, href |-> Some(HrefIndex1), date |-> Date1, index |-> IndexNamed],
      [cells |-> 5, form |-> Form10KA, href |-> Some(HrefQuery2), date |-> Date2, index |-> IndexDown],
      [cells |-> 5, form |-> Form10Q, href |-> Some(HrefIndex3), date |-> Date2, index |-> IndexHtmOnly],
      [cells |-> 5, form |-> Form10K, href |-> Some(HrefIndex3), date |-> Date2, index |-> IndexEmptyName],
      [cells |-> 5, form |-> Form10K, href |-> Some(HrefPlain), date |-> Date1, index |-> IndexDown],
      [cells |-> 5, form |-> Form10Q, href |-> None, date |-> Date1, index |-> IndexDown],
      [cells |-> 3, form |-> Form10K, href |-> Some(HrefIndex1), date |-> Date1, index |-> IndexNamed],
      [cells |-> 5, form |-> Form13FHR, href |-> Some(HrefIndex1), date |-> Date1, index |-> IndexNamed] }

\* what the fetch and the parse of the filings page can give
HtmlPages ==
    { [kind |-> "unavailable", rows |-> <<>>],
      [kind |-> "parse_error", rows |-> <<>>],
      [kind |-> "no_table", rows |-> <<>>],
      [kind |-> "table", rows |-> <<>>] }
        \cup {[kind |-> "table", rows |-> <<HeaderRow>> \o r] : r \in SeqsUpTo(HtmlRows, MaxRows)}

\* entries of the feed: with a link or none, with an <updated> element with
\* text, without text, or none
RssEntries ==
    { [link |-> Some(HrefIndex1), updated |-> Some(Some(Updated1))],
      [link |-> Some(HrefIndex3), updated |-> None],
      [link |-> Some(HrefIndex3), updated |-> Some(None)],
      [link |-> Some(HrefQuery2), updated |-> Some(Some(Updated1))],
      [link |-> None, updated |-> Some(Some(Updated1))] }

\* what the fetch and the parse of the feed can give
RssFeeds ==
    { [kind |-> "unavailable", entries |-> <<>>],
      [kind |-> "parse_error", entries |-> <<>>] }
        \cup {[kind |-> "feed", entries |-> e] : e \in SeqsUpTo(RssEntries, MaxRows)}

\* filings of a submissions record; the last one has its accession number
\* written without dashes
ApiRows ==
    { [form |-> Form10K, acc |-> Acc1, doc |-> DocMain, date |-> Date1],
      [form |-> Form10KA, acc |-> Acc2, doc |-> DocOther, date |-> Date2],
      [form |-> Form10Q, acc |-> Acc3, doc |-> DocMain, date |-> Date2],
      [form |-> Form13FHR, acc |-> Acc3, doc |-> DocOther, date |-> Date1],
      [form |-> Form10Q, acc |-> AccClean1, doc |-> DocMain, date |-> Date1] }

\* filings.recent of a submissions record, its four lists index-aligned
RecentOf(rows) ==
    [form |-> [i \in 1..Len(rows) |-> rows[i].form],
     accessionNumber |-> [i \in 1..Len(rows) |-> rows[i].acc],
     primaryDocument |-> [i \in 1..Len(rows) |-> rows[i].doc],
     filingDate |-> [i \in 1..Len(rows) |-> rows[i].date]]

\* s[:-1]
DropLast(q) == SubSeq(q, 1, Len(q) - 1)

\* the records with one of the three other lists one entry short
ShortRecents(rows) ==
    IF rows = <<>> THEN {}
    ELSE { [RecentOf(rows) EXCEPT !.accessionNumber = DropLast(@)],
           [RecentOf(rows) EXCEPT !.primaryDocument = DropLast(@)],
           [RecentOf(rows) EXCEPT !.filingDate = DropLast(@)] }

\* what get_submissions can give: None, or a record
Submissions ==
    {None}
        \cup {Some(RecentOf(rows)) : rows \in SeqsUpTo(ApiRows, MaxRows)}
        \cup {Some(r) : r \in UNION {ShortRecents(rows) : rows \in SeqsUpTo(ApiRows, MaxRows)}}

\* entries of a stored filings.json: descriptors, or an entry without "form"
LocalEntries ==
    { Descriptor(Form10K, Acc1, AccClean1, DocMain, Date1,
                 ArchiveUrl(StrLstripZeros(CikPadded), AccClean1, DocMain),
                 FolderUrl(StrLstripZeros(CikPadded), AccClean1)),
      Descriptor(Form10KA, Acc2, AccClean2, DocOther, Date2,
                 ArchiveUrl(StrLstripZeros(CikPadded), AccClean2, DocOther),
                 FolderUrl(StrLstripZeros(CikPadded), AccClean2)),
      Descriptor(Form10Q, Acc2, AccClean2, DocMain, Date2, DemoUrl, DemoUrl),
      [accession |-> Acc3] }

\* what _load_local_json can give: None, or the stored list
LocalFiles == {None} \cup {Some(l) : l \in SeqsUpTo(LocalEntries, MaxRows)}

\* a filter of the stored list by prefix, as the network strategies filter
LocalFilteredByPrefix(local_data, form_type) ==
    IF \E i \in 1..Len(local_data) : "form" \notin DOMAIN local_data[i]
    THEN [raised |-> TRUE, filings |-> <<>>]
    ELSE [raised |-> FALSE,
          filings |-> SelectSeq(local_data, LAMBDA f : StrStartsWith(f.form, form_type))]

\* method 0 of get_filings: [f for f in local_data if f['form'] == form_type];
\* an entry without the key raises
LocalFiltered(local_data, form_type) ==
    IF \E i \in 1..Len(local_data) : "form" \notin DOMAIN local_data[i]
    THEN [raised |-> TRUE, filings |-> <<>>]
    ELSE [raised |-> FALSE,
          filings |-> SelectSeq(local_data, LAMBDA f : f.form = form_type)]

\* entry of get_filings, with method 0: the stored list (g_local is what
\* data/{ticker}/filings.json holds) is read only with a ticker, and returned
\* when it holds a filing of the form type
GetFilingsEnter(form_type, count, hint, local) ==
    /\ g_form' = form_type
    /\ g_count' = count
    /\ g_hint' = hint
    /\ g_local' = local
    /\ IF hint /\ local # None /\ local[1] # <<>>
       THEN LET got == LocalFiltered(local[1], form_type)
            IN  IF got.raised THEN g_pc' = "raised" /\ g_ret' = <<>>
                ELSE IF got.filings # <<>>
                THEN g_pc' = "returned" /\ g_ret' = Prefix(got.filings, count)
                ELSE g_pc' = "html" /\ g_ret' = <<>>
       ELSE g_pc' = "html" /\ g_ret' = <<>>
    /\ g_log' = <<>>
    /\ g_input' = None

\* a call of get_filings from outside the batch job, with any arguments.
\* Without a ticker the file is never opened, so files of at most one entry
\* are enough there.
GetFilingsCall ==
    /\ g_pc = "idle"
    /\ b_pc = "idle"
    /\ \E form_type \in FormTypes, count \in 0..MaxCount, hint \in BOOLEAN, local \in LocalFiles :
        /\ (~hint /\ local # None) => Len(local[1]) <= 1
        /\ GetFilingsEnter(form_type, count, hint, local)
    /\ UNCHANGED notFilings

\* what get_filings does with the list a strategy produced
AfterStrategy(strategy, input, filings) ==
    /\ g_log' = Append(g_log, [strategy |-> strategy, filings |-> filings])
    /\ g_input' = IF filings # <<>> THEN Some(input) ELSE None
    /\ IF filings # <<>>
       THEN g_pc' = "returned" /\ g_ret' = filings
       ELSE g_pc' = StrategyAfter(strategy) /\ g_ret' = <<>>
    /\ UNCHANGED <<g_form, g_count, g_hint, g_local, notFilings>>

\* method 1: the filings page
TryHtml ==
    /\ g_pc = "html"
    /\ \E page \in HtmlPages :
        AfterStrategy("html", page, GetFilingsViaHtml(page, CikPadded, g_form, g_count))

\* method 2: the feed
TryRss ==
    /\ g_pc = "rss"
    /\ \E feed \in RssFeeds :
        AfterStrategy("rss", feed, GetFilingsViaRss(feed, CikPadded, g_form, g_count))

\* method 3: the submissions API; an IndexError leaves get_filings
TryApi ==
    /\ g_pc = "api"
    /\ \E subs \in Submissions :
        LET got == GetFilingsViaApi(subs, CikPadded, g_form, g_count)
        IN  IF got.raised
            THEN /\ g_pc' = "raised"
                 /\ g_log' = Append(g_log, [strategy |-> "api", filings |-> got.filings])
                 /\ g_input' = Some(subs)
                 /\ UNCHANGED <<g_form, g_count, g_hint, g_local, g_ret, notFilings>>
            ELSE AfterStrategy("api", subs, got.filings)

\* method 4: the placeholders, returned whatever they are
TryDemo ==
    /\ g_pc = "demo"
    /\ g_log' = Append(g_log, [strategy |-> "demo", filings |-> GetDemoFilings(g_form, g_count)])
    /\ g_ret' = GetDemoFilings(g_form, g_count)
    /\ g_pc' = "returned"
    /\ g_input' = None
    /\ UNCHANGED <<g_form, g_count, g_hint, g_local, notFilings>>

InitFilings == FilingsIdle /\ FetchIdle /\ CikIdle /\ NormIdle /\ RedlineIdle /\ AuditIdle

NextFilings == GetFilingsCall \/ TryHtml \/ TryRss \/ TryApi \/ TryDemo

SpecFilings == InitFilings /\ [][NextFilings]_vars

---------------------------------------------------------------------------
(* Claims about get_filings, checked under SpecFilings.                    *)

\* the get_filings call went through all four network strategies
PlaceholderReached ==
    /\ g_pc = "returned"
    /\ Len(g_log) = 4
    /\ g_log[4].strategy = "demo"

\* a descriptor whose url and folder_url are the sentinel
IsPlaceholder(f) == f.url.kind = "DEMO" /\ f.folder_url.kind = "DEMO"

\* C1: the network strategies are attempted in the order directory page,
\* feed, submissions API, placeholder; a strategy is attempted only when every
\* earlier one produced no descriptor; the result is the list of the first
\* strategy that produced one, and nothing is attempted after it.
Thm_C1_CascadeOrder ==
    /\ Len(g_log) <= 4
    /\ \A i \in 1..Len(g_log) : g_log[i].strategy = <<"html", "rss", "api", "demo">>[i]
    /\ \A i \in 1..(Len(g_log) - 1) : g_log[i].filings = <<>>
    /\ g_pc \in {"html", "rss", "api", "demo"} =>
        /\ \A i \in 1..Len(g_log) : g_log[i].filings = <<>>
        /\ g_pc = <<"html", "rss", "api", "demo">>[Len(g_log) + 1]
    /\ (g_pc = "returned" /\ g_log # <<>>) =>
        /\ g_ret = g_log[Len(g_log)].filings
        /\ g_ret = <<>> => Len(g_log) = 4

\* C1 witness: the directory page and the feed produced nothing, the
\* submissions API produced a descriptor, which was returned.
Wit_C1_ThirdStrategyAnswers ==
    /\ g_pc = "returned"
    /\ Len(g_log) = 3
    /\ g_log[1].filings = <<>> /\ g_log[2].filings = <<>>
    /\ g_log[3].strategy = "api"
    /\ g_ret # <<>>
    /\ g_ret = g_log[3].filings

\* C2, as claimed: when every other strategy produced nothing, exactly 2
\* placeholder descriptors are returned, whatever the form type and the count.
Cex_C2_AlwaysTwoPlaceholders ==
    PlaceholderReached =>
        /\ Len(g_ret) = 2
        /\ \A i \in 1..Len(g_ret) : IsPlaceholder(g_ret[i])

\* C2, amended: when every other strategy produced nothing, the result is
\* min(count, 2) placeholder descriptors for the form types 10-K and 10-Q, and
\* the empty list for any other form type.
Thm_C2_PlaceholdersCutToCount ==
    PlaceholderReached =>
        IF g_form \in {Form10K, Form10Q}
        THEN /\ Len(g_ret) = (IF g_count < 2 THEN g_count ELSE 2)
             /\ \A i \in 1..Len(g_ret) : IsPlaceholder(g_ret[i])
        ELSE g_ret = <<>>

\* C2 witness: a request for one 10-Q ended with one placeholder.
Wit_C2_OnePlaceholder ==
    /\ PlaceholderReached
    /\ g_form = Form10Q
    /\ g_count = 1
    /\ Len(g_ret) = 1
    /\ IsPlaceholder(g_ret[1])

\* C3: the returned list has at most count descriptors.  (The directory-page
\* and the feed strategy test the length after they have appended, so with
\* count 0 they return one descriptor.)
Cex_C3_AtMostCount == g_pc = "returned" => Len(g_ret) <= g_count

\* C4: get_filings never raises.  (The filter of the stored list and the
\* loop over the submissions record are outside any try block.)
Cex_C4_NeverRaises == g_pc # "raised"

\* the pattern 10 digits - 2 digits - 6 digits, on the whole string
IsAccession(acc) == Len(acc) = 20 /\ AccessionAt(acc, 1)

\* C17, as the claim states it: every descriptor get_filings returns, whatever
\* strategy produced it, has an accession of the form 10 digits - 2 digits -
\* 6 digits and an accession_clean that is the accession without its dashes.
Cex_C17_AccessionWellFormed ==
    g_pc = "returned" =>
        \A i \in 1..Len(g_ret) :
            /\ IsAccession(g_ret[i].accession)
            /\ g_ret[i].accession_clean = StrRemoveChar(g_ret[i].accession, "-")

\* the stored list is one the batch job materialized: a list of descriptors
Materialized ==
    /\ g_local # None
    /\ \A i \in 1..Len(g_local[1]) : "form" \in DOMAIN g_local[1][i]

\* the positions of the stored list whose form is the requested form type
StoredOfType == {i \in 1..Len(g_local[1]) : g_local[1][i].form = g_form}

\* q holds the first at most n entries of the stored list that are of the
\* requested form type, in stored order
IsCachedPrefix(q, n) ==
    /\ Len(q) = (IF Cardinality(StoredOfType) < n THEN Cardinality(StoredOfType) ELSE n)
    /\ \A k \in 1..Len(q) :
        \E i \in StoredOfType :
            /\ q[k] = g_local[1][i]
            /\ Cardinality({j \in StoredOfType : j < i}) = k - 1

\* C21: with a ticker hint and a materialized stored list that holds an entry
\* of the requested form type, get_filings returns up to count of those
\* entries in stored order and attempts no strategy; without a hint, or with
\* no such entry (or no stored list), the stored list contributes nothing and
\* the cascade starts with the directory page.
Thm_C21_CacheFirst ==
    g_pc # "idle" =>
        /\ (g_hint /\ Materialized /\ StoredOfType # {}) =>
            /\ g_pc = "returned"
            /\ g_log = <<>>
            /\ IsCachedPrefix(g_ret, g_count)
        /\ (~g_hint \/ g_local = None \/ (Materialized /\ StoredOfType = {})) =>
            /\ g_log = <<>> => g_pc = "html" /\ g_ret = <<>>
            /\ g_log # <<>> => g_log[1].strategy = "html"
            /\ (g_pc = "returned") => g_ret = g_log[Len(g_log)].filings

\* C21 witness: the stored list holds a 10-K/A and then a 10-K; a request
\* with a hint for 10-K returned the 10-K alone and attempted no strategy.
Wit_C21_StoredTenKReturned ==
    /\ g_pc = "returned"
    /\ g_hint
    /\ g_form = Form10K
    /\ g_count = 2
    /\ g_local # None
    /\ Len(g_local[1]) = 2
    /\ Materialized
    /\ g_local[1][1].form = Form10KA
    /\ g_local[1][2].form = Form10K
    /\ g_ret = <<g_local[1][2]>>
    /\ g_log = <<>>

\* C21 witness of the other side: a stored list with a 10-K was on disk, the
\* request came without a hint, and the directory page was attempted.
Wit_C21_NoHintGoesToDirectoryPage ==
    /\ ~g_hint
    /\ Materialized
    /\ StoredOfType # {}
    /\ g_log # <<>>
    /\ g_log[1].strategy = "html"

\* the form code begins with the requested form type, character by character
OfRequestedType(form) ==
    /\ Len(form) >= Len(g_form)
    /\ \A k \in 1..Len(g_form) : form[k] = g_form[k]

\* a row of the filings table that a descriptor can be built from: four
\* cells, a link that carries an accession number, a primary document name
UsableRow(row) ==
    /\ row.cells >= 4
    /\ row.href # None
    /\ SearchAccession(row.href[1]) # None
    /\ PrimaryDocFromIndex(row.index, StrRemoveChar(SearchAccession(row.href[1])[1], "-")) # <<>>

\* the strategy named answered the call, and what it worked on is known
Answered(strategy) ==
    /\ g_pc = "returned"
    /\ g_log # <<>>
    /\ g_log[Len(g_log)].strategy = strategy
    /\ g_input # None

\* the rows below the header of the filings page the strategy worked on
PageRows == Tail(g_input[1].rows)

\* the usable rows of the page whose form code is of the requested type
EligibleRows == SelectSeq(PageRows, LAMBDA row : UsableRow(row) /\ OfRequestedType(row.form))

\* the positions of the submissions record whose form code is of the
\* requested type
EligiblePositions ==
    {i \in 1..Len(g_input[1][1].form) : OfRequestedType(g_input[1][1].form[i])}

\* C23: in the directory-page and the submissions-API strategy the filings
\* taken are exactly those whose form code starts with the requested form
\* type (10-K/A for 10-K), in order, until the strategy has enough; and every
\* descriptor get_filings returns, whatever strategy produced it, has a form
\* code that starts with the requested form type.
Thm_C23_FormTypePrefix ==
    /\ Answered("html") =>
        /\ Len(g_ret) <= Len(EligibleRows)
        /\ \A k \in 1..Len(g_ret) :
            /\ g_ret[k].form = EligibleRows[k].form
            /\ g_ret[k].date = EligibleRows[k].date
        /\ Len(g_ret) < Len(EligibleRows) => Len(g_ret) >= g_count
    /\ Answered("api") =>
        /\ Len(g_ret) <= Cardinality(EligiblePositions)
        /\ \A k \in 1..Len(g_ret) :
            \E i \in EligiblePositions :
                /\ Cardinality({j \in EligiblePositions : j < i}) = k - 1
                /\ g_ret[k].form = g_input[1][1].form[i]
                /\ g_ret[k].accession = g_input[1][1].accessionNumber[i]
        /\ Len(g_ret) < Cardinality(EligiblePositions) => Len(g_ret) >= g_count
    /\ g_pc = "returned" => \A k \in 1..Len(g_ret) : OfRequestedType(g_ret[k].form)

\* C23 witness: the directory page listed a 10-K/A and a 10-K, the request
\* was for two 10-K filings, and both were returned.
Wit_C23_AmendmentAccepted ==
    /\ Answered("html")
    /\ g_form = Form10K
    /\ g_count = 2
    /\ Len(g_ret) = 2
    /\ g_ret[1].form = Form10KA
    /\ g_ret[2].form = Form10K

\* the same through the submissions API
AmendmentAcceptedByApi ==
    /\ Answered("api")
    /\ g_form = Form10K
    /\ Len(g_ret) = 2
    /\ g_ret[1].form = Form10K
    /\ g_ret[2].form = Form10KA

---------------------------------------------------------------------------
(* Claims about analyze_textual_changes, checked under SpecRedline.        *)

\* C9: in every returned result, risk_score = 2 x (entries of the returned
\* escalations list) + (entries of the returned silent_deletions list).  (The
\* code counts the lists before it cuts them to 10 entries.)
Cex_C9_RiskScoreOfReturnedLists ==
    r_pc = "done" =>
        r_result.risk_score
            = 2 * Len(r_result.escalations) + Len(r_result.silent_deletions)

KwGoingConcern ==
    <<"g","o","i","n","g"," ","c","o","n","c","e","r","n">>

KwSubstantialDoubt ==
    <<"s","u","b","s","t","a","n","t","i","a","l"," ","d","o","u","b","t">>

\* an escalation entry whose sentence holds both "substantial doubt" and
\* "going concern"
HoldsBoth(e) == Contains(e.text, KwSubstantialDoubt) /\ Contains(e.text, KwGoingConcern)

\* C10, as claimed: an added sentence that holds both "substantial doubt" and
\* "going concern" yields an escalation entry with keyword "substantial doubt".
Cex_C10_SubstantialDoubtWins ==
    r_pc = "done" =>
        \A i \in 1..Len(r_result.escalations) :
            HoldsBoth(r_result.escalations[i]) =>
                r_result.escalations[i].keyword = KwSubstantialDoubt

\* C10, amended: no two escalation entries come from one added sentence, each
\* entry carries the first keyword, in the order of the vocabulary list, that
\* its sentence contains, and a sentence that holds both "substantial doubt"
\* and "going concern" yields the keyword "going concern".
Thm_C10_FirstListedKeywordWins ==
    r_pc = "done" =>
        LET esc == r_result.escalations
        IN  /\ \A i, j \in 1..Len(esc) : i # j => esc[i].text # esc[j].text
            /\ \A i \in 1..Len(esc) :
                /\ \E k \in 1..Len(risk_keywords) :
                    /\ esc[i].keyword = risk_keywords[k]
                    /\ Contains(esc[i].text, risk_keywords[k])
                    /\ \A h \in 1..(k - 1) : ~Contains(esc[i].text, risk_keywords[h])
                /\ HoldsBoth(esc[i]) => esc[i].keyword = KwGoingConcern

\* C10 witness: the example sentence was added and its entry carries the
\* keyword "going concern".
Wit_C10_ExampleSentence ==
    /\ r_pc = "done"
    /\ \E i \in 1..Len(r_result.escalations) :
        /\ r_result.escalations[i].text = StrLower(ExampleSentence)
        /\ r_result.escalations[i].keyword = KwGoingConcern

---------------------------------------------------------------------------
(* Claims about _fetch and get_cik, checked under SpecClient.              *)

\* a request that was answered with HTTP 200
Answered200(req) == req.outcome.kind = "response" /\ req.outcome.status = 200

\* a relay request whose answer the claim calls acceptable
RelayAcceptable(req) == Answered200(req) /\ req.outcome.len > 100

\* C5: _fetch never raises; in direct mode it makes exactly one request, in
\* relay mode at most one request per relay endpoint (at most 3); when no
\* request was answered acceptably it returns None.
Thm_C5_FetchNeverRaises ==
    /\ f_pc # "raised"
    /\ Len(f_log) <= (IF use_proxies THEN 3 ELSE 1)
    /\ \A i, j \in 1..Len(f_log) : i # j => f_log[i].endpoint # f_log[j].endpoint
    /\ f_pc = "returned" =>
        /\ ~use_proxies => Len(f_log) = 1
        /\ (~use_proxies /\ ~Answered200(f_log[1])) => f_ret = None
        /\ (use_proxies /\ \A i \in 1..Len(f_log) : ~RelayAcceptable(f_log[i])) =>
                (f_ret = None /\ Len(f_log) = 3)

\* C5 witness: a relay-mode call in which all three endpoints failed, one of
\* them by raising, has returned None.
Wit_C5_AllRelaysFailed ==
    /\ use_proxies
    /\ f_pc = "returned"
    /\ f_ret = None
    /\ Len(f_log) = 3
    /\ f_log[1].outcome.kind = "exception"
    /\ f_log[2].outcome.status = 404
    /\ f_log[3].outcome.status = 200 /\ f_log[3].outcome.len = 100

\* C6: in relay mode the endpoints are tried in list order, every endpoint
\* before the last one tried was not acceptable (non-200, body of at most 100
\* characters, or an exception), and the call returns the response of the
\* first acceptable endpoint, after which no endpoint is contacted.
Thm_C6_RelayOrder ==
    use_proxies =>
        /\ \A i \in 1..Len(f_log) : f_log[i].endpoint = PROXIES[i]
        /\ \A i \in 1..(Len(f_log) - 1) : ~RelayAcceptable(f_log[i])
        /\ f_pc = "proxy" => \A i \in 1..Len(f_log) : ~RelayAcceptable(f_log[i])
        /\ f_pc = "returned" =>
            IF RelayAcceptable(f_log[Len(f_log)])
            THEN f_ret = Some(f_log[Len(f_log)].outcome)
            ELSE f_ret = None /\ Len(f_log) = Len(PROXIES)

\* C6 witness: the first endpoint answered 200 with a body of exactly 100
\* characters and was skipped, the second was accepted, the third not contacted.
Wit_C6_SecondRelayAccepted ==
    /\ use_proxies
    /\ f_pc = "returned"
    /\ Len(f_log) = 2
    /\ f_log[1].outcome = [kind |-> "response", status |-> 200, len |-> 100]
    /\ f_log[2].outcome = [kind |-> "response", status |-> 200, len |-> 101]
    /\ f_ret = Some(f_log[2].outcome)

\* the ticker argument brk.b and the identifier the curated map holds for BRK-B
TickerBrkDotB == <<"b","r","k",".","b">>
PaddedBrkB == <<"0","0","0","1","0","6","7","9","8","3">>

\* C7: for a ticker whose normalized form is a key of the curated map,
\* get_cik returns the mapped identifier left-padded with zeros to exactly 10
\* characters and makes no fetch.
Thm_C7_CuratedNoFetch ==
    (c_pc # "idle" /\ NormalizeTicker(c_arg) \in CikKeys) =>
        /\ c_pc = "returned"
        /\ c_fetches = 0
        /\ f_pc = "idle" /\ f_log = <<>>
        /\ c_ret # None
        /\ LET id == CikLookup(NormalizeTicker(c_arg))
               r == c_ret[1]
               pad == 10 - Len(id)
           IN  /\ Len(r) = 10
               /\ \A i \in 1..pad : r[i] = "0"
               /\ \A i \in 1..Len(id) : r[pad + i] = id[i]
        /\ c_arg = TickerBrkDotB => c_ret = Some(PaddedBrkB)

\* C7 witness: get_cik("brk.b") has returned 0001067983 without a fetch.
Wit_C7_BrkDotB ==
    /\ c_pc = "returned"
    /\ c_arg = TickerBrkDotB
    /\ c_ret = Some(PaddedBrkB)
    /\ c_fetches = 0

(***************************************************************************)
(* analyze_financials, on the batch job's path and on the interactive one. *)
(* Amounts are integers; liquidity_ratio is kept in hundredths and         *)
(* cash_change_pct in tenths, which is what round(x, 2) and round(x, 1)    *)
(* leave of the quotient.                                                  *)
(***************************************************************************)

Abs(n) == IF n < 0 THEN -n ELSE n

\* round(num / den * scale, digits), as the integer nearest to num / den; at
\* an exact tie the binary value of the quotient decides, so both neighbours
\* are outcomes
RoundNearest(num, den) ==
    LET n == IF den < 0 THEN -num ELSE num
        d == Abs(den)
        q == n \div d
        r == n - q * d
    IN  IF 2 * r < d THEN {q}
        ELSE IF 2 * r > d THEN {q + 1}
        ELSE {q, q + 1}

\* the decimal digits, in order
DigitString == <<"0","1","2","3","4","5","6","7","8","9">>

\* str(n) for n >= 0
RECURSIVE IntToStr(_)
IntToStr(n) ==
    IF n < 10 THEN <<DigitString[n + 1]>>
    ELSE IntToStr(n \div 10) \o <<DigitString[(n % 10) + 1]>>

\* the "," option of the format specification
RECURSIVE GroupThousands(_)
GroupThousands(digits) ==
    IF Len(digits) <= 3 THEN digits
    ELSE GroupThousands(SubSeq(digits, 1, Len(digits) - 3))
             \o <<",">> \o SubSeq(digits, Len(digits) - 2, Len(digits))

Billion == 1000000000
Million == 1000000

\* f"{a / unit:.1f}" for a >= unit: one decimal, a tie going to the even digit
OneDecimal(a, unit) ==
    LET tenth == unit \div 10
        q == a \div tenth
        r == a % tenth
        t == IF 2 * r < tenth THEN q
             ELSE IF 2 * r > tenth THEN q + 1
             ELSE IF q % 2 = 0 THEN q ELSE q + 1
    IN  IntToStr(t \div 10) \o <<".">> \o <<DigitString[(t % 10) + 1]>>

\* _format_number
FormatNumber(val) ==
    IF val = None THEN <<"N","/","A">>
    ELSE LET v == val[1]
             sign == IF v < 0 THEN <<"-">> ELSE <<>>
         IN  IF Abs(v) >= Billion
             THEN <<"$">> \o sign \o OneDecimal(Abs(v), Billion) \o <<"B">>
             ELSE IF Abs(v) >= Million
             THEN <<"$">> \o sign \o OneDecimal(Abs(v), Million) \o <<"M">>
             ELSE <<"$">> \o sign \o GroupThousands(IntToStr(Abs(v)))

\* the order of the characters of a date: their code points
DateChars == <<"-","0","1","2","3","4","5","6","7","8","9">>

CharRank(c) == CHOOSE i \in 1..Len(DateChars) : DateChars[i] = c

\* a < b on str
RECURSIVE StrLess(_, _)
StrLess(a, b) ==
    IF b = <<>> THEN FALSE
    ELSE IF a = <<>> THEN TRUE
    ELSE IF Head(a) = Head(b) THEN StrLess(Tail(a), Tail(b))
    ELSE CharRank(Head(a)) < CharRank(Head(b))

\* q without its i-th element
RemoveAt(q, i) == SubSeq(q, 1, i - 1) \o SubSeq(q, i + 1, Len(q))

\* sorted(values, key=lambda x: x.get("end", ""), reverse=True): the sort is
\* stable, so among equal keys the earlier entry stays first
RECURSIVE SortedByEndDesc(_)
SortedByEndDesc(values) ==
    IF values = <<>> THEN <<>>
    ELSE LET i == CHOOSE k \in 1..Len(values) :
                      /\ \A j \in 1..Len(values) : ~StrLess(values[k].end, values[j].end)
                      /\ \A j \in 1..(k - 1) : StrLess(values[j].end, values[k].end)
         IN  <<values[i]>> \o SortedByEndDesc(RemoveAt(values, i))

\* us_gaap.get(concept, {}).get("units", {}), the values of its first unit
\* kind: the list under "USD" here, empty when the concept is absent
UnitValues(us_gaap, concept) ==
    IF concept \in DOMAIN us_gaap THEN us_gaap[concept] ELSE <<>>

\* _get_latest_fact: .get("val") of the entry with the latest end, or None
GetLatestFact(us_gaap, concept) ==
    LET values == UnitValues(us_gaap, concept)
    IN  IF values = <<>> THEN None ELSE SortedByEndDesc(values)[1].val

\* bool(v.get("val")): a value that is there and is not 0
Truthy(val) == val # None /\ val[1] # 0

\* _get_fact_history: the values of the count latest entries, those that are
\* None or 0 left out after the cut
GetFactHistory(us_gaap, concept, count) ==
    LET values == UnitValues(us_gaap, concept)
        latest == Prefix(SortedByEndDesc(values), count)
        kept == SelectSeq(latest, LAMBDA v : Truthy(v.val))
    IN  [i \in 1..Len(kept) |-> kept[i].val[1]]

LiquidityAlert == [type |-> "LIQUIDITY_ALERT", severity |-> "HIGH"]
CashBurnAlert == [type |-> "CASH_BURN_ALERT", severity |-> "HIGH"]

HistoryCount == 2
RatioScale == 100
PctScale == 1000
RatioFloor == 100
CashBurnFloor == -300

\* the test before the liquidity ratio: all three operands of the "and"
LiquidityGuard(current_assets, current_liabilities) ==
    Truthy(current_assets) /\ Truthy(current_liabilities) /\ current_liabilities[1] > 0

\* the test before the cash change
CashGuard(cash_history) ==
    Len(cash_history) >= 2 /\ cash_history[2] > 0

\* a cash-burn alert appended once for each of the two quarters compared
AlertsPerQuarter(liquidity_ratio, cash_change_pct) ==
    (IF liquidity_ratio # None /\ liquidity_ratio[1] < RatioFloor
     THEN <<LiquidityAlert>> ELSE <<>>)
        \o (IF cash_change_pct # None /\ cash_change_pct[1] < CashBurnFloor
            THEN <<CashBurnAlert, CashBurnAlert>> ELSE <<>>)

\* the list alerts: each of the two tests appends at most once
Alerts(liquidity_ratio, cash_change_pct) ==
    (IF liquidity_ratio # None /\ liquidity_ratio[1] < RatioFloor
     THEN <<LiquidityAlert>> ELSE <<>>)
        \o (IF cash_change_pct # None /\ cash_change_pct[1] < CashBurnFloor
            THEN <<CashBurnAlert>> ELSE <<>>)

\* the dictionary analyze_financials returns, for the two rounded numbers
Audit(us_gaap, liquidity_ratio, cash_change_pct) ==
    LET alerts == Alerts(liquidity_ratio, cash_change_pct)
    IN  [current_assets |-> FormatNumber(GetLatestFact(us_gaap, "AssetsCurrent")),
         current_liabilities |-> FormatNumber(GetLatestFact(us_gaap, "LiabilitiesCurrent")),
         cash |-> FormatNumber(GetLatestFact(us_gaap, "CashAndCashEquivalentsAtCarryingValue")),
         total_debt |-> FormatNumber(GetLatestFact(us_gaap, "LongTermDebt")),
         total_assets |-> FormatNumber(GetLatestFact(us_gaap, "Assets")),
         liquidity_ratio |-> liquidity_ratio,
         cash_change_pct |-> cash_change_pct,
         alerts |-> alerts,
         health_score |-> 10 - Len(alerts) * 3]

\* analyze_financials on a non-empty dictionary: the results it can return
\* (one, unless a quotient is an exact tie); a dictionary without the key
\* "facts" is read as one without any concept
AnalyzeFinancials(company_facts) ==
    LET us_gaap == IF "facts" \in DOMAIN company_facts
                   THEN company_facts.facts ELSE <<>>
        current_assets == GetLatestFact(us_gaap, "AssetsCurrent")
        current_liabilities == GetLatestFact(us_gaap, "LiabilitiesCurrent")
        cash_history == GetFactHistory(us_gaap, "CashAndCashEquivalentsAtCarryingValue",
                                       HistoryCount)
        ratios == IF LiquidityGuard(current_assets, current_liabilities)
                  THEN {Some(r) : r \in RoundNearest(current_assets[1] * RatioScale,
                                                     current_liabilities[1])}
                  ELSE {None}
        changes == IF CashGuard(cash_history)
                   THEN {Some(c) : c \in RoundNearest((cash_history[1] - cash_history[2]) * PctScale,
                                                      cash_history[2])}
                   ELSE {None}
    IN  {Audit(us_gaap, r, c) : r \in ratios, c \in changes}

\* period ends, as the API writes them
End2023Q4 == <<"2","0","2","3","-","1","2","-","3","1">>
End2024Q1 == <<"2","0","2","4","-","0","3","-","3","1">>
End2024Q2 == <<"2","0","2","4","-","0","6","-","3","0">>

Fact(end, val) == [end |-> end, val |-> val]

\* what the API can hold for current assets: nothing, one value, a latest
\* value of 0, a latest entry without "val"
AssetsCurrentValues ==
    { <<>>,
      <<Fact(End2024Q2, Some(80))>>,
      <<Fact(End2024Q1, Some(80)), Fact(End2024Q2, Some(150))>>,
      <<Fact(End2024Q2, Some(0)), Fact(End2024Q1, Some(150))>>,
      <<Fact(End2024Q2, None), Fact(End2024Q1, Some(80))>> }

\* for current liabilities
LiabilitiesCurrentValues ==
    { <<>>,
      <<Fact(End2024Q2, Some(100))>>,
      <<Fact(End2024Q1, Some(100)), Fact(End2024Q2, Some(300))>>,
      <<Fact(End2024Q2, Some(0))>>,
      <<Fact(End2024Q2, Some(-100))>> }

\* for cash: up to MaxFacts entries
CashAmounts == {Some(0), Some(69), Some(70), Some(100)}

CashFacts == {Fact(end, val) : end \in {End2023Q4, End2024Q1, End2024Q2}, val \in CashAmounts}

MaxFacts == 2

\* for long-term debt and total assets, which are only rendered
OtherValues ==
    { [debt |-> <<>>, assets |-> <<Fact(End2024Q2, Some(1234))>>],
      [debt |-> <<Fact(End2024Q2, Some(1250000))>>, assets |-> <<Fact(End2024Q2, Some(2000000000))>>],
      [debt |-> <<Fact(End2024Q2, Some(-2500000))>>, assets |-> <<>>] }

\* the dictionaries the company-facts API can answer with
CompanyFacts ==
    { [facts |-> [AssetsCurrent |-> a, LiabilitiesCurrent |-> l,
                  CashAndCashEquivalentsAtCarryingValue |-> c,
                  LongTermDebt |-> o.debt, Assets |-> o.assets]] :
        a \in AssetsCurrentValues, l \in LiabilitiesCurrentValues,
        c \in SeqsUpTo(CashFacts, MaxFacts), o \in OtherValues }

\* get_company_facts without a ticker: None when the fetch fails
FactsAnswers == {None} \cup {Some(f) : f \in CompanyFacts}

InitFinancials ==
    /\ a_pc = "batch"
    /\ a_facts \in FactsAnswers
    /\ a_audit = None
    /\ a_stored = None
    /\ a_shown = None
    /\ CoreIdle /\ HoldIdle /\ ExtractIdle /\ BatchIdle /\ ThreadsIdle /\ WhaleIdle

\* step 4 of the batch job: the facts from the API, the audit, and the audit
\* saved as financials.json
BatchFinancials ==
    /\ a_pc = "batch"
    /\ IF a_facts # None
       THEN \E financials \in AnalyzeFinancials(a_facts[1]) :
                /\ a_audit' = Some(financials)
                /\ a_stored' = Some(financials)
       ELSE a_audit' = None /\ a_stored' = None
    /\ a_pc' = "interactive"
    /\ UNCHANGED <<a_facts, a_shown, notFin>>

\* get_company_facts with a ticker: the stored financials.json when there is
\* one, else the API
GetCompanyFacts(stored, api) == IF stored # None THEN stored ELSE api

\* tab 2 of the application: get_company_facts(cik, ticker=ticker), then
\* analyze_financials on what it gave
InteractiveFinancials ==
    /\ a_pc = "interactive"
    /\ LET facts == GetCompanyFacts(a_stored, a_facts)
       IN  IF facts # None
           THEN \E financials \in AnalyzeFinancials(facts[1]) : a_shown' = Some(financials)
           ELSE a_shown' = None
    /\ a_pc' = "shown"
    /\ UNCHANGED <<a_facts, a_audit, a_stored, notFin>>

NextFinancials == BatchFinancials \/ InteractiveFinancials

SpecFinancials == InitFinancials /\ [][NextFinancials]_vars

(***************************************************************************)
(* Claims about analyze_financials, checked under SpecFinancials.          *)
(***************************************************************************)

\* the facts the batch job analysed
AuditedGaap == a_facts[1].facts

HasAlert(audit, alert) == \E i \in 1..Len(audit.alerts) : audit.alerts[i] = alert

\* C11, as the claim states it: once analyze_financials has returned, with a
\* latest current-assets value A (whatever it is, 0 included) and a latest
\* current-liabilities value L > 0 the result holds liquidity_ratio = A / L
\* rounded to 2 decimals and a LIQUIDITY_ALERT exactly when the ratio is below
\* 1.0; with L missing or <= 0 it holds no ratio and no liquidity alert.
Cex_C11_RatioForAnyAssets ==
    (a_pc # "batch" /\ a_audit # None) =>
        LET A == GetLatestFact(AuditedGaap, "AssetsCurrent")
            L == GetLatestFact(AuditedGaap, "LiabilitiesCurrent")
            audit == a_audit[1]
        IN  /\ (A # None /\ L # None /\ L[1] > 0) =>
                   /\ audit.liquidity_ratio # None
                   /\ audit.liquidity_ratio[1] \in RoundNearest(A[1] * 100, L[1])
                   /\ HasAlert(audit, LiquidityAlert) <=> audit.liquidity_ratio[1] < 100
            /\ (L = None \/ L[1] <= 0) =>
                   /\ audit.liquidity_ratio = None
                   /\ ~HasAlert(audit, LiquidityAlert)

\* the entries of the cash concept, latest end first
CashByEnd == SortedByEndDesc(UnitValues(AuditedGaap, "CashAndCashEquivalentsAtCarryingValue"))

\* C12, as the claim states it: once analyze_financials has returned, with at
\* least two cash entries, newest value n (whatever it is, 0 included) and
\* second-newest value s > 0, the result holds cash_change_pct =
\* (n - s) / s x 100 rounded to 1 decimal and a CASH_BURN_ALERT exactly when
\* that is below -30.
Cex_C12_CashChangeForAnyNewest ==
    (a_pc # "batch" /\ a_audit # None /\ Len(CashByEnd) >= 2) =>
        LET n == CashByEnd[1].val
            s == CashByEnd[2].val
            audit == a_audit[1]
        IN  (n # None /\ s # None /\ s[1] > 0) =>
                /\ audit.cash_change_pct # None
                /\ audit.cash_change_pct[1] \in RoundNearest((n[1] - s[1]) * 1000, s[1])
                /\ HasAlert(audit, CashBurnAlert) <=> audit.cash_change_pct[1] < -300

\* C18, as the claim states it: when the batch job stored an audit, the audit
\* the interactive path computes is the stored one.
Cex_C18_InteractiveEqualsStored ==
    (a_pc = "shown" /\ a_stored # None) => a_shown = a_stored

\* the audits analyze_financials has returned: in the batch job and on the
\* interactive path
ReturnedAudits ==
    (IF a_audit # None THEN {a_audit[1]} ELSE {})
        \cup (IF a_shown # None THEN {a_shown[1]} ELSE {})

\* the number of alerts of a type in an audit
AlertCount(audit, type) ==
    Cardinality({k \in 1..Len(audit.alerts) : audit.alerts[k].type = type})

\* C26: every audit analyze_financials returns holds at most one
\* LIQUIDITY_ALERT and at most one CASH_BURN_ALERT and no other alert, and
\* its health_score is 10 - 3 x the number of alerts: 10, 7 or 4, never
\* negative.
Thm_C26_HealthScoreRange ==
    \A audit \in ReturnedAudits :
        /\ AlertCount(audit, "LIQUIDITY_ALERT") <= 1
        /\ AlertCount(audit, "CASH_BURN_ALERT") <= 1
        /\ Len(audit.alerts) =
               AlertCount(audit, "LIQUIDITY_ALERT") + AlertCount(audit, "CASH_BURN_ALERT")
        /\ audit.health_score = 10 - 3 * Len(audit.alerts)
        /\ audit.health_score \in {10, 7, 4}
        /\ audit.health_score >= 0

\* C26 witness: the batch audit holds both alerts and has health_score 4.
Wit_C26_BothAlerts ==
    /\ a_audit # None
    /\ AlertCount(a_audit[1], "LIQUIDITY_ALERT") = 1
    /\ AlertCount(a_audit[1], "CASH_BURN_ALERT") = 1
    /\ a_audit[1].health_score = 4

(***************************************************************************)
(* parse_13f_holdings.  The document is what ET.fromstring makes of it: no *)
(* tree when it is not well-formed, else the infoTable elements in         *)
(* document order, each with the text of the children the parser reads.    *)
(***************************************************************************)

\* the value of a string of decimal digits
RECURSIVE DigitsValue(_)
DigitsValue(digits) ==
    IF digits = <<>> THEN 0
    ELSE DigitsValue(DropLast(digits)) * 10
             + ((CHOOSE i \in 1..10 : DigitString[i] = digits[Len(digits)]) - 1)

\* int(text): surrounding whitespace dropped, an optional sign, then digits
\* only; None stands for the ValueError
ParseInt(text) ==
    LET t == StrStrip(text)
        signed == t # <<>> /\ Head(t) \in {"+", "-"}
        digits == IF signed THEN Tail(t) ELSE t
    IN  IF digits = <<>> \/ \E i \in 1..Len(digits) : digits[i] \notin DigitChars
        THEN None
        ELSE Some(IF signed /\ Head(t) = "-" THEN -DigitsValue(digits) ELSE DigitsValue(digits))

\* int(child.text) * factor if child.text else 0
IntField(text, factor) ==
    IF text = <<>> THEN Some(0)
    ELSE IF ParseInt(text) = None THEN None
    ELSE Some(ParseInt(text)[1] * factor)

ValueFactor == 1000

\* the dictionary built for one infoTable element; the loop over its children
\* raises when a value or a share count is no integer
Holding(info) ==
    LET value == IntField(info.value, ValueFactor)
        shares == IntField(info.sshPrnamt, 1)
    IN  IF value = None \/ shares = None THEN None
        ELSE Some([issuer |-> info.nameOfIssuer, class |-> info.titleOfClass,
                   cusip |-> info.cusip, value |-> value[1], shares |-> shares[1]])

\* the loop over root.iter(): an exception leaves the loop for the except
\* clause, which passes, and the function returns the holdings built so far
RECURSIVE HoldingsLoop(_, _)
HoldingsLoop(infos, holdings) ==
    IF infos = <<>> THEN holdings
    ELSE LET holding == Holding(Head(infos))
         IN  IF holding = None THEN holdings
             ELSE IF holding[1].issuer # <<>>
             THEN HoldingsLoop(Tail(infos), Append(holdings, holding[1]))
             ELSE HoldingsLoop(Tail(infos), holdings)

\* parse_13f_holdings
ParseHoldings(xml_content) ==
    IF xml_content = None THEN <<>>
    ELSE IF ~xml_content[1].well_formed THEN <<>>
    ELSE HoldingsLoop(xml_content[1].infoTables, <<>>)

\* texts of the children
IssuerAcme == <<"A","C","M","E">>
ClassCom == <<"C","O","M">>
CusipA == <<"0","3","7","8","3","3","1","0","0">>
CusipB == <<"5","9","4","9","1","8","1","0","4">>
TextTwelve == <<"1","2">>
TextGrouped == <<"1",",","5","0","0">>
TextFiveHundred == <<" ","5","0","0","\n">>
TextDecimal == <<"7",".","5">>

\* infoTable elements: with or without an issuer name, with a value and a
\* share count that are integers, empty, or something else
InfoTables ==
    { [nameOfIssuer |-> issuer, titleOfClass |-> ClassCom, cusip |-> cusip,
       value |-> value, sshPrnamt |-> shares] :
        issuer \in {IssuerAcme, <<>>}, cusip \in {CusipA, CusipB},
        value \in {TextTwelve, TextGrouped, <<>>},
        shares \in {TextFiveHundred, TextDecimal} }

MaxTables == 2

\* the arguments: the empty string (None), a document that is not
\* well-formed, or one with up to MaxTables infoTable elements
XmlContents ==
    {None, Some([well_formed |-> FALSE, infoTables |-> <<>>])}
        \cup {Some([well_formed |-> TRUE, infoTables |-> infos]) :
                  infos \in SeqsUpTo(InfoTables, MaxTables)}

InitHoldings ==
    /\ h_pc = "called"
    /\ h_xml \in XmlContents
    /\ h_ret = <<>>
    /\ CoreIdle /\ FinIdle /\ ExtractIdle /\ BatchIdle /\ ThreadsIdle /\ WhaleIdle

\* the call: nothing leaves the function but its return value
ParseCall ==
    /\ h_pc = "called"
    /\ h_ret' = ParseHoldings(h_xml)
    /\ h_pc' = "returned"
    /\ UNCHANGED <<h_xml, notHold>>

NextHoldings == ParseCall

SpecHoldings == InitHoldings /\ [][NextHoldings]_vars

(***************************************************************************)
(* Claims about parse_13f_holdings, checked under SpecHoldings.            *)
(***************************************************************************)

\* a value or share-count text that is there and is no integer
NotAnInteger(text) == text # <<>> /\ ParseInt(text) = None

\* an error occurs while the document is parsed
ParsingFails(xml_content) ==
    /\ xml_content # None
    /\ \/ ~xml_content[1].well_formed
       \/ \E i \in 1..Len(xml_content[1].infoTables) :
              \/ NotAnInteger(xml_content[1].infoTables[i].value)
              \/ NotAnInteger(xml_content[1].infoTables[i].sshPrnamt)

\* C13, as the claim states it: parse_13f_holdings returns, and when an error
\* occurs while its input is parsed (in any infoTable element, one that
\* follows valid ones included) it returns the empty list.
Cex_C13_ErrorGivesEmptyList ==
    (h_pc = "returned" /\ ParsingFails(h_xml)) => h_ret = <<>>

(***************************************************************************)
(* extract_item_1a.  A filing has tens of thousands of characters, so a    *)
(* text is kept as a sequence of runs [k, n]: n characters of one kind.    *)
(* The kinds are whitespace ("ws"), a full stop ("dot"), the words the     *)
(* patterns look for ("item1a" for Item 1A, "rf" for Risk Factors,         *)
(* "item1b" for Item 1B, "item2" for Item 2) and other text ("fill"),      *)
(* which holds none of those words and neither starts nor ends with        *)
(* whitespace.  A document is a sequence of runs and of tags ("tag").      *)
(***************************************************************************)

Run(k, n) == [k |-> k, n |-> n]

Tag == Run("tag", 3)
Space == Run("ws", 1)

\* len(text)
RECURSIVE TextLen(_)
TextLen(runs) == IF runs = <<>> THEN 0 ELSE Head(runs).n + TextLen(Tail(runs))

\* text[:n]
RECURSIVE TakeChars(_, _)
TakeChars(runs, n) ==
    IF runs = <<>> \/ n <= 0 THEN <<>>
    ELSE IF Head(runs).n >= n THEN <<Run(Head(runs).k, n)>>
    ELSE <<Head(runs)>> \o TakeChars(Tail(runs), n - Head(runs).n)

\* text.strip()
RECURSIVE StripRuns(_)
StripRuns(runs) ==
    IF runs = <<>> THEN <<>>
    ELSE IF Head(runs).k = "ws" THEN StripRuns(Tail(runs))
    ELSE IF runs[Len(runs)].k = "ws" THEN StripRuns(DropLast(runs))
    ELSE runs

\* the strings of the parsed document: the text between two tags
RECURSIVE TextNodes(_, _)
TextNodes(pieces, node) ==
    IF pieces = <<>> THEN <<node>>
    ELSE IF Head(pieces).k = "tag" THEN <<node>> \o TextNodes(Tail(pieces), <<>>)
    ELSE TextNodes(Tail(pieces), Append(node, Head(pieces)))

\* " ".join of the strings that are not empty
RECURSIVE JoinNodes(_)
JoinNodes(nodes) ==
    IF nodes = <<>> THEN <<>>
    ELSE IF Len(nodes) = 1 THEN Head(nodes)
    ELSE Head(nodes) \o <<Space>> \o JoinNodes(Tail(nodes))

\* soup.get_text(" ", strip=True): every string stripped, the empty ones
\* dropped, the rest joined by one space
GetText(html) ==
    LET stripped == [i \in 1..Len(TextNodes(html, <<>>)) |-> StripRuns(TextNodes(html, <<>>)[i])]
    IN  JoinNodes(SelectSeq(stripped, LAMBDA node : node # <<>>))

\* re.sub(r'\s+', ' ', text)
RECURSIVE CollapseRuns(_)
CollapseRuns(runs) ==
    IF runs = <<>> THEN <<>>
    ELSE IF Head(runs).k = "ws"
    THEN IF Len(runs) >= 2 /\ runs[2].k = "ws" THEN CollapseRuns(Tail(runs))
         ELSE <<Space>> \o CollapseRuns(Tail(runs))
    ELSE <<Head(runs)>> \o CollapseRuns(Tail(runs))

\* where [\.\s]+ ends when it starts at run i: the first run from i on that
\* is neither a full stop nor whitespace (Len + 1 when there is none)
SeparatorEnd(text, i) ==
    IF \E j \in i..Len(text) : text[j].k \notin {"dot", "ws"}
    THEN CHOOSE j \in i..Len(text) :
             /\ text[j].k \notin {"dot", "ws"}
             /\ \A m \in i..(j - 1) : text[m].k \in {"dot", "ws"}
    ELSE Len(text) + 1

\* Item\s+1A[\.\s]+Risk\s+Factors matches from run i on
HeadingAt(text, i) ==
    /\ text[i].k = "item1a"
    /\ SeparatorEnd(text, i + 1) > i + 1
    /\ SeparatorEnd(text, i + 1) <= Len(text)
    /\ text[SeparatorEnd(text, i + 1)].k = "rf"

\* (?:Item\s+1B|Item\s+2[\.\s]) matches at run e
NextItemAt(text, e) ==
    \/ text[e].k = "item1b"
    \/ text[e].k = "item2" /\ e < Len(text) /\ text[e + 1].k \in {"dot", "ws"}

\* (?:ITEM\s+1B|ITEM\s+2) matches at run e
NextItemUpperAt(text, e) == text[e].k \in {"item1b", "item2"}

\* the least element of a non-empty set of numbers
Least(S) == CHOOSE i \in S : \A j \in S : i <= j

\* group(1) of re.search with the first pattern, None without a match: the
\* leftmost heading that has a next item after it, up to the first such item
MatchHeading(text) ==
    LET ends(i) == {e \in (SeparatorEnd(text, i + 1) + 1)..Len(text) : NextItemAt(text, e)}
        starts == {i \in 1..Len(text) : HeadingAt(text, i) /\ ends(i) # {}}
    IN  IF starts = {} THEN None
        ELSE Some(SubSeq(text, SeparatorEnd(text, Least(starts) + 1) + 1,
                         Least(ends(Least(starts))) - 1))

\* group(1) of re.search with the second pattern
MatchItem(text) ==
    LET ends(i) == {e \in (i + 1)..Len(text) : NextItemUpperAt(text, e)}
        starts == {i \in 1..Len(text) : text[i].k = "item1a" /\ ends(i) # {}}
    IN  IF starts = {} THEN None
        ELSE Some(SubSeq(text, Least(starts) + 1, Least(ends(Least(starts))) - 1))

MinSectionLen == 500
SectionCut == 25000
DocumentCut == 15000

\* text.lower().find("risk factors"), as the index of the run; 0 for -1
FindTitle(text) ==
    IF \E i \in 1..Len(text) : text[i].k = "rf"
    THEN Least({i \in 1..Len(text) : text[i].k = "rf"})
    ELSE 0

\* extract_item_1a
ExtractItem1a(html) ==
    LET text == CollapseRuns(GetText(html))
        first == MatchHeading(text)
        second == MatchItem(text)
        title == FindTitle(text)
    IN  IF first # None /\ TextLen(first[1]) > MinSectionLen
        THEN TakeChars(StripRuns(first[1]), SectionCut)
        ELSE IF second # None /\ TextLen(second[1]) > MinSectionLen
        THEN TakeChars(StripRuns(second[1]), SectionCut)
        ELSE IF title > 0 /\ TextLen(SubSeq(text, 1, title - 1)) > 0
        THEN TakeChars(SubSeq(text, title, Len(text)), SectionCut)
        ELSE TakeChars(text, DocumentCut)

\* what a document is made of
Pieces ==
    { Tag, Run("ws", 2), Run("dot", 1), Run("fill", 3), Run("fill", 600), Run("fill", 30000),
      Run("item1a", 7), Run("rf", 12), Run("item1b", 7), Run("item2", 6) }

MaxPieces == 5

\* the documents: not empty
Documents == SeqsUpTo(Pieces, MaxPieces) \ {<<>>}

InitExtract ==
    /\ x_pc = "called"
    /\ x_html \in Documents
    /\ x_ret = <<>>
    /\ CoreIdle /\ FinIdle /\ HoldIdle /\ BatchIdle /\ ThreadsIdle /\ WhaleIdle

ExtractCall ==
    /\ x_pc = "called"
    /\ x_ret' = ExtractItem1a(x_html)
    /\ x_pc' = "returned"
    /\ UNCHANGED <<x_html, notExtract>>

NextExtract == ExtractCall

SpecExtract == InitExtract /\ [][NextExtract]_vars

(***************************************************************************)
(* Claims about extract_item_1a, checked under SpecExtract.                *)
(***************************************************************************)

\* C14, as the claim states it: for every non-empty document the string
\* extract_item_1a returns is not empty and has at most 25000 characters.
Cex_C14_NonEmptyExtract ==
    (x_pc = "returned" /\ x_html # <<>>) =>
        (TextLen(x_ret) >= 1 /\ TextLen(x_ret) <= 25000)

\* the plain text extract_item_1a works on
PlainText == CollapseRuns(GetText(x_html))

\* neither section pattern yields a capture longer than 500 characters
NoSectionCaptured ==
    /\ MatchHeading(PlainText) = None \/ TextLen(MatchHeading(PlainText)[1]) <= MinSectionLen
    /\ MatchItem(PlainText) = None \/ TextLen(MatchItem(PlainText)[1]) <= MinSectionLen

TitleNotFirst ==
    (/\ x_pc = "returned"
     /\ NoSectionCaptured
     /\ FindTitle(PlainText) # 1) =>
        IF FindTitle(PlainText) > 0
        THEN x_ret = TakeChars(SubSeq(PlainText, FindTitle(PlainText), Len(PlainText)), SectionCut)
        ELSE x_ret = TakeChars(PlainText, DocumentCut)

(***************************************************************************)
(* The batch job: main of scripts/fetch_sec_data.py.  Each step of the     *)
(* loop body is a call that returns or raises; what it returns matters     *)
(* only where the loop body tests it.                                      *)
(***************************************************************************)

TICKERS == <<"AAPL", "TSLA", "NVDA", "MSFT", "GOOGL">>

BatchCatchesNothing == FALSE

\* "except Exception" around the loop body: what a step raises is caught
BatchCatches == TRUE

\* the loop goes on to the next ticker, or ends after the last one
NextTicker(outcome) ==
    /\ b_log' = Append(b_log, [ticker |-> TICKERS[b_i], outcome |-> outcome])
    /\ b_i' = b_i + 1
    /\ b_pc' = IF b_i + 1 > Len(TICKERS) THEN "done" ELSE "resolve"
    /\ b_asked' = <<>>
    /\ b_saved' = None

\* a step raises: the handler prints the traceback and the loop goes on
Raised ==
    IF BatchCatches
    THEN NextTicker("raised")
    ELSE b_pc' = "aborted" /\ UNCHANGED <<b_i, b_log, b_asked, b_saved>>

\* a step returns and the loop body goes on with the next step
GoOn(step) == b_pc' = step /\ UNCHANGED <<b_i, b_log, b_asked, b_saved>>

InitBatch ==
    /\ b_pc = "resolve"
    /\ b_i = 1
    /\ b_log = <<>>
    /\ b_asked = <<>>
    /\ b_saved = None
    /\ CoreIdle /\ FinIdle /\ HoldIdle /\ ExtractIdle /\ ThreadsIdle /\ WhaleIdle

\* 1. sec.get_cik(ticker); "continue" when it gives nothing
ResolveCik ==
    /\ b_pc = "resolve"
    /\ \E result \in {"cik", "none", "raise"} :
        CASE result = "cik" -> GoOn("discover")
          [] result = "none" -> NextTicker("unresolved")
          [] result = "raise" -> Raised
    /\ UNCHANGED notBatch

\* 2. sec.get_filings for 10-Q, then for 10-K; "continue" when both are
\* empty; else the list is saved
DiscoverFilings ==
    /\ b_pc = "discover"
    /\ \E result \in {"filings", "none", "raise"} :
        CASE result = "filings" -> GoOn("extract")
          [] result = "none" -> NextTicker("no_filings")
          [] result = "raise" -> Raised
    /\ UNCHANGED notBatch

\* 3. download and extraction of the two filings, risks.json, the redline
ExtractRisks ==
    /\ b_pc = "extract"
    /\ \E result \in {"done", "raise"} :
        IF result = "done" THEN GoOn("audit") ELSE Raised
    /\ UNCHANGED notBatch

\* 4. the company facts, the audit, financials.json
AuditFacts ==
    /\ b_pc = "audit"
    /\ \E result \in {"done", "raise"} :
        IF result = "done" THEN GoOn("synthesize") ELSE Raised
    /\ UNCHANGED notBatch

\* 6. the narrative when there is an editor, intelligence.json, the pause;
\* then the next ticker
Synthesize ==
    /\ b_pc = "synthesize"
    /\ \E result \in {"done", "raise"} :
        IF result = "done" THEN NextTicker("processed") ELSE Raised
    /\ UNCHANGED notBatch

NextBatch == ResolveCik \/ DiscoverFilings \/ ExtractRisks \/ AuditFacts \/ Synthesize

\* every call of the loop body returns or raises in the end
SpecBatch == InitBatch /\ [][NextBatch]_vars /\ WF_vars(NextBatch)

(***************************************************************************)
(* Claims about the batch job, checked under SpecBatch.                    *)
(***************************************************************************)

\* the tickers the loop is through with are the first ones of the list, each
\* once and in list order
LogFollowsList ==
    /\ Len(b_log) <= Len(TICKERS)
    /\ \A k \in 1..Len(b_log) : b_log[k].ticker = TICKERS[k]

\* C15: at every moment the loop has finished with exactly the first tickers
\* of the list, each once and in list order, and no failure leaves the loop;
\* and in the end the loop is over with all tickers of the list gone through.
Thm_C15_BatchGoesThroughList ==
    /\ [](LogFollowsList /\ b_pc # "aborted")
    /\ <>(b_pc = "done" /\ Len(b_log) = Len(TICKERS))

\* C15 happens: the loop is over, a ticker was not resolved, another raised,
\* and a later one was processed in full
Wit_C15_LaterTickerProcessed ==
    /\ b_pc = "done"
    /\ \E k, m, n \in 1..Len(b_log) :
        /\ k < n /\ m < n
        /\ b_log[k].outcome = "unresolved"
        /\ b_log[m].outcome = "raised"
        /\ b_log[n].outcome = "processed"

---------------------------------------------------------------------------
(* Step 2 of the loop body in full: the batch job's own calls of           *)
(* get_filings, run through the strategies of the client.                   *)

\* count=2 of both requests
BatchCount == 2

\* the call of get_filings is over
FilingsReset ==
    /\ g_pc' = "idle"
    /\ g_form' = <<>>
    /\ g_count' = 0
    /\ g_hint' = FALSE
    /\ g_local' = None
    /\ g_input' = None
    /\ g_log' = <<>>
    /\ g_ret' = <<>>

\* what neither the loop nor get_filings touches
notDiscover ==
    <<fetchVars, cikVars, normVars, redlineVars, finVars, holdVars, extractVars, threadVars, whaleVars>>

\* filings = sec.get_filings(cik, "10-Q", count=2): no ticker is passed
AskFilings ==
    /\ b_pc = "discover"
    /\ GetFilingsEnter(Form10Q, BatchCount, FALSE, None)
    /\ b_asked' = <<[form |-> Form10Q, answer |-> "pending"]>>
    /\ b_pc' = "discovering"
    /\ UNCHANGED <<b_i, b_log, b_saved, notDiscover>>

\* the call is over: an exception goes to the handler; an empty list is
\* followed by the request for 10-K, and an empty list again by "No filings
\* found" and the next ticker; any other list is written to filings.json
AfterFilings ==
    /\ b_pc = "discovering"
    /\ g_pc \in {"returned", "raised"}
    /\ LET answer == IF g_pc = "raised" THEN "raised"
                      ELSE IF g_log = <<>> THEN "stored"
                      ELSE g_log[Len(g_log)].strategy
           asked == [b_asked EXCEPT ![Len(b_asked)].answer = answer]
       IN  IF g_pc = "raised"
           THEN Raised /\ FilingsReset
           ELSE IF g_ret = <<>> /\ Len(b_asked) = 1
           THEN /\ GetFilingsEnter(Form10K, BatchCount, FALSE, None)
                /\ b_asked' = Append(asked, [form |-> Form10K, answer |-> "pending"])
                /\ UNCHANGED <<b_pc, b_i, b_log, b_saved>>
           ELSE IF g_ret = <<>>
           THEN NextTicker("no_filings") /\ FilingsReset
           ELSE /\ b_saved' = Some(g_ret)
                /\ b_asked' = asked
                /\ b_pc' = "extract"
                /\ UNCHANGED <<b_i, b_log>>
                /\ FilingsReset
    /\ UNCHANGED notDiscover

\* get_filings is called by the interactive path, or the batch job runs
InitDiscover == InitFilings \/ InitBatch

NextDiscover ==
    \/ GetFilingsCall \/ TryHtml \/ TryRss \/ TryApi \/ TryDemo
    \/ ResolveCik \/ AskFilings \/ AfterFilings \/ ExtractRisks \/ AuditFacts \/ Synthesize

SpecDiscover == InitDiscover /\ [][NextDiscover]_vars

\* the batch job has written the list of the ticker being processed
Persisted == b_saved # None

\* C25: for form type 10-K or 10-Q and count >= 1 get_filings never returns
\* an empty list; so the batch job, which asks for 10-Q with count 2, never
\* makes its second request (for 10-K) and never ends a ticker with "No
\* filings found"; and when the placeholder strategy answered, what it writes
\* as the ticker's filing list are the placeholder descriptors.
Thm_C25_PlaceholdersAlwaysSupply ==
    /\ (g_pc = "returned" /\ g_form \in {Form10K, Form10Q} /\ g_count >= 1) => g_ret # <<>>
    /\ Len(b_asked) <= 1
    /\ \A k \in 1..Len(b_asked) : b_asked[k].form = Form10Q
    /\ \A k \in 1..Len(b_log) : b_log[k].outcome # "no_filings"
    /\ b_pc \in {"extract", "audit", "synthesize"} => Persisted
    /\ (Persisted /\ b_asked[1].answer = "demo") =>
        /\ Len(b_saved[1]) = 2
        /\ \A k \in 1..2 :
            /\ IsPlaceholder(b_saved[1][k])
            /\ b_saved[1][k].form = Form10Q

\* C25 witness: every network strategy failed for a ticker, and the two
\* placeholder descriptors were written as its filing list.
Wit_C25_PlaceholdersPersisted ==
    /\ b_pc = "extract"
    /\ Persisted
    /\ b_asked = <<[form |-> Form10Q, answer |-> "demo"]>>
    /\ Len(b_saved[1]) = 2
    /\ IsPlaceholder(b_saved[1][1])
    /\ IsPlaceholder(b_saved[1][2])

(***************************************************************************)
(* The direct branch of _fetch, run by several threads on one SECClient    *)
(* (use_proxies = False, the client of the batch job).  The statement that *)
(* stores the Host header in self.headers and the call of requests.get     *)
(* that reads self.headers are two steps; other threads run between them.  *)
(***************************************************************************)

\* the host a url names
HostOf(url) == IF IsDataUrl(url) THEN "data.sec.gov" ELSE "www.sec.gov"

MaxFetches == 2

\* the fetches of one thread: one to MaxFetches urls
WorkLists == SeqsUpTo(Urls, MaxFetches) \ {<<>>}

InitThreads ==
    /\ use_proxies = FALSE
    /\ headers_host = "www.sec.gov"
    /\ f_pc = "idle" /\ f_url = "" /\ f_idx = 1 /\ f_log = <<>>
    /\ f_ret = None /\ f_caller = "nobody"
    /\ t_pc = [t \in Threads |-> "start"]
    /\ t_work \in [Threads -> WorkLists]
    /\ t_sent = [t \in Threads |-> <<>>]
    /\ CikIdle /\ NormIdle /\ RedlineIdle /\ FilingsIdle
    /\ FinIdle /\ HoldIdle /\ ExtractIdle /\ BatchIdle /\ WhaleIdle

\* self.headers["Host"] = ..., for the url the thread is fetching
ThreadSetHost(t) ==
    /\ t_pc[t] = "start"
    /\ t_work[t] # <<>>
    /\ headers_host' = HostOf(Head(t_work[t]))
    /\ t_pc' = [t_pc EXCEPT ![t] = "send"]
    /\ UNCHANGED <<use_proxies, f_pc, f_url, f_idx, f_log, f_ret, f_caller,
                   t_work, t_sent, notThreads>>

\* requests.get(url, headers=self.headers, timeout=30): the request goes out
\* with the Host header self.headers holds at this moment
ThreadSend(t) ==
    /\ t_pc[t] = "send"
    /\ t_sent' = [t_sent EXCEPT ![t] =
                      Append(@, [url |-> Head(t_work[t]), host |-> headers_host])]
    /\ t_work' = [t_work EXCEPT ![t] = Tail(@)]
    /\ t_pc' = [t_pc EXCEPT ![t] = "start"]
    /\ UNCHANGED <<fetchVars, notThreads>>

NextThreads == \E t \in Threads : ThreadSetHost(t) \/ ThreadSend(t)

SpecThreads == InitThreads /\ [][NextThreads]_vars

(***************************************************************************)
(* Claims about concurrent fetches, checked under SpecThreads.             *)
(***************************************************************************)

\* C16, as the claim states it: under every interleaving of the fetches of
\* two threads on one client, each request is sent with the Host header of
\* the domain of its own url.
Cex_C16_OwnHostHeader ==
    \A t \in Threads : \A i \in 1..Len(t_sent[t]) :
        t_sent[t][i].host = HostOf(t_sent[t][i].url)

(***************************************************************************)
(* analyze_whale_changes.  Share counts are integers; delta_pct is kept in *)
(* tenths, which is what round(x, 1) leaves of the quotient.               *)
(***************************************************************************)

\* the keys of {h.get('cusip', ''): h for h in holdings if h.get('cusip')}
CusipsOf(holdings) ==
    {holdings[i].cusip : i \in {j \in 1..Len(holdings) : holdings[j].cusip # <<>>}}

\* that dictionary: a later holding replaces an earlier one with its CUSIP
IndexByCusip(holdings) ==
    [c \in CusipsOf(holdings) |->
        holdings[CHOOSE i \in 1..Len(holdings) :
                     /\ holdings[i].cusip = c
                     /\ \A j \in (i + 1)..Len(holdings) : holdings[j].cusip # c]]

\* map.get(cusip, {}).get('shares', 0)
SharesOf(map, cusip) == IF cusip \in DOMAIN map THEN map[cusip].shares ELSE 0

\* map.get(cusip, {}).get('value', 0)
ValueOf(map, cusip) == IF cusip \in DOMAIN map THEN map[cusip].value ELSE 0

IssuerUnknown == <<"U","n","k","n","o","w","n">>

\* curr.get('issuer') or prev.get('issuer', 'Unknown')
IssuerOf(current_map, previous_map, cusip) ==
    IF cusip \in DOMAIN current_map /\ current_map[cusip].issuer # <<>>
    THEN current_map[cusip].issuer
    ELSE IF cusip \in DOMAIN previous_map THEN previous_map[cusip].issuer
    ELSE IssuerUnknown

HundredPercent == 1000

\* round(delta / prev_shares * 100, 1): None stands for the ZeroDivisionError
Quotient(delta, prev_shares) ==
    IF prev_shares = 0 THEN {None}
    ELSE {Some(pct) : pct \in RoundNearest(delta * PctScale, prev_shares)}

\* the conditional expression with the division evaluated in both cases
DeltaPctDivides(delta, prev_shares) == Quotient(delta, prev_shares)

\* round(delta / prev_shares * 100, 1) if prev_shares else 100.0: the
\* division is evaluated only when prev_shares is not 0
DeltaPct(delta, prev_shares) ==
    IF prev_shares # 0 THEN Quotient(delta, prev_shares) ELSE {Some(HundredPercent)}

\* total_sold += delta, without abs
SoldAmountSigned(delta) == delta

\* total_sold += abs(delta)
SoldAmount(delta) == Abs(delta)

\* the loop over all_cusips in the order given: the ways it can end, each
\* with the change records appended and the two totals
RECURSIVE WhaleLoop(_, _, _)
WhaleLoop(order, current_map, previous_map) ==
    IF order = <<>>
    THEN {[raised |-> FALSE, changes |-> <<>>, total_bought |-> 0, total_sold |-> 0]}
    ELSE LET cusip == Head(order)
             curr_shares == SharesOf(current_map, cusip)
             prev_shares == SharesOf(previous_map, cusip)
             delta == curr_shares - prev_shares
             later == WhaleLoop(Tail(order), current_map, previous_map)
             change(pct) ==
                 [issuer |-> IssuerOf(current_map, previous_map, cusip),
                  cusip |-> cusip,
                  current_shares |-> curr_shares,
                  previous_shares |-> prev_shares,
                  delta |-> delta,
                  delta_pct |-> pct,
                  current_value |-> ValueOf(current_map, cusip),
                  action |-> IF delta > 0 THEN "BUY" ELSE "SELL"]
         IN  IF delta = 0 THEN later
             ELSE UNION {
                 IF pct = None
                 THEN {[raised |-> TRUE, changes |-> <<>>, total_bought |-> 0, total_sold |-> 0]}
                 ELSE {[raised |-> l.raised,
                        changes |-> <<change(pct[1])>> \o l.changes,
                        total_bought |-> l.total_bought + (IF delta > 0 THEN delta ELSE 0),
                        total_sold |-> l.total_sold + (IF delta > 0 THEN 0 ELSE SoldAmount(delta))] :
                           l \in later}
                 : pct \in DeltaPct(delta, prev_shares) }

\* the list left in the order of the loop
KeptInLoopOrder(changes) == changes

\* changes.sort(key=lambda x: abs(x['delta']), reverse=True): stable
RECURSIVE SortedByDeltaDesc(_)
SortedByDeltaDesc(changes) ==
    IF changes = <<>> THEN <<>>
    ELSE LET i == CHOOSE k \in 1..Len(changes) :
                      /\ \A j \in 1..Len(changes) : Abs(changes[j].delta) <= Abs(changes[k].delta)
                      /\ \A j \in 1..(k - 1) : Abs(changes[j].delta) < Abs(changes[k].delta)
         IN  <<changes[i]>> \o SortedByDeltaDesc(RemoveAt(changes, i))

TopCount == 5

ConvictionSignal(net_conviction) ==
    IF net_conviction > 0 THEN "BULLISH"
    ELSE IF net_conviction < 0 THEN "BEARISH"
    ELSE "NEUTRAL"

\* the dictionary returned after a loop that ended without an exception
WhaleResult(current_holdings, loop) ==
    LET changes == SortedByDeltaDesc(loop.changes)
        net_conviction == loop.total_bought - loop.total_sold
    IN  [total_positions |-> Len(current_holdings),
         changes_count |-> Len(changes),
         top_buys |-> Prefix(SelectSeq(changes, LAMBDA c : c.action = "BUY"), TopCount),
         top_sells |-> Prefix(SelectSeq(changes, LAMBDA c : c.action = "SELL"), TopCount),
         new_positions |-> Prefix(SelectSeq(changes, LAMBDA c : c.previous_shares = 0), TopCount),
         exits |-> Prefix(SelectSeq(changes, LAMBDA c : c.current_shares = 0), TopCount),
         net_conviction |-> net_conviction,
         conviction_signal |-> ConvictionSignal(net_conviction)]

WhaleError == [error |-> "No current holdings data"]

\* analyze_whale_changes: the ways the call can end
AnalyzeWhaleChanges(current_holdings, previous_holdings, seed) ==
    IF current_holdings = <<>> THEN {[raised |-> FALSE, result |-> WhaleError]}
    ELSE LET current_map == IndexByCusip(current_holdings)
             previous_map == IndexByCusip(previous_holdings)
             all_cusips == DOMAIN current_map \cup DOMAIN previous_map
         IN  { IF loop.raised THEN [raised |-> TRUE, result |-> WhaleError]
               ELSE [raised |-> FALSE, result |-> WhaleResult(current_holdings, loop)] :
                   loop \in WhaleLoop(IterationOrder(all_cusips, seed), current_map, previous_map) }

\* holdings of a snapshot: two securities, one holding without a CUSIP
ShareCounts == {0, 16, 17}

WhaleHoldings ==
    { [issuer |-> IssuerAcme, cusip |-> cusip, shares |-> shares, value |-> 12000] :
          cusip \in {CusipA, CusipB}, shares \in ShareCounts }
        \cup { [issuer |-> <<>>, cusip |-> <<>>, shares |-> 16, value |-> 0] }

MaxCurrent == 2
MaxPrevious == 1
WhaleSeeds == {0, 1}

\* a portfolio of many securities: what happened to one of them between the
\* two quarters (0 shares: the snapshot does not list it)
Movements ==
    { [previous |-> 20, current |-> 21],
      [previous |-> 21, current |-> 20],
      [previous |-> 0, current |-> 20],
      [previous |-> 20, current |-> 0] }

MaxSecurities == 6

\* the CUSIP of the k-th security of a portfolio
CusipOf(k) == SubSeq(CusipA, 1, 8) \o IntToStr(k)

\* the holdings a snapshot lists, given the share count of every security
Snapshot(shares) ==
    SelectSeq([k \in 1..Len(shares) |->
                  [issuer |-> IssuerAcme, cusip |-> CusipOf(k), shares |-> shares[k], value |-> 12000]],
              LAMBDA h : h.shares > 0)

\* the pairs of snapshots compared: short lists of any holdings, and
\* portfolios of MaxSecurities securities
WhaleInputs ==
    { [current |-> c, previous |-> q] :
          c \in SeqsUpTo(WhaleHoldings, MaxCurrent), q \in SeqsUpTo(WhaleHoldings, MaxPrevious) }
        \cup { [current |-> Snapshot([k \in 1..MaxSecurities |-> m[k].current]),
                previous |-> Snapshot([k \in 1..MaxSecurities |-> m[k].previous])] :
                    m \in [1..MaxSecurities -> Movements] }

InitWhale ==
    /\ w_pc = "called"
    /\ \E input \in WhaleInputs :
        /\ w_current = input.current
        /\ w_previous = input.previous
    /\ w_seed \in WhaleSeeds
    /\ w_result = None
    /\ CoreIdle /\ FinIdle /\ HoldIdle /\ ExtractIdle /\ BatchIdle /\ ThreadsIdle

WhaleCall ==
    /\ w_pc = "called"
    /\ \E ending \in AnalyzeWhaleChanges(w_current, w_previous, w_seed) :
        IF ending.raised
        THEN w_pc' = "raised" /\ w_result' = None
        ELSE w_pc' = "returned" /\ w_result' = Some(ending.result)
    /\ UNCHANGED <<w_current, w_previous, w_seed, notWhale>>

NextWhale == WhaleCall

SpecWhale == InitWhale /\ [][NextWhale]_vars

(***************************************************************************)
(* Claims about analyze_whale_changes, checked under SpecWhale.            *)
(***************************************************************************)

\* the call returned the comparison, not the error dictionary
Compared == w_pc = "returned" /\ "error" \notin DOMAIN w_result[1]

\* the change records the result holds
ReturnedChanges ==
    Range(w_result[1].top_buys) \cup Range(w_result[1].top_sells)
        \cup Range(w_result[1].new_positions) \cup Range(w_result[1].exits)

\* pct, in tenths of a percent, is delta / shares x 100 rounded to 1 decimal:
\* no number with one decimal is nearer to the quotient
IsRoundedPct(pct, delta, shares) ==
    2 * Abs(pct * shares - delta * 1000) <= Abs(shares)

\* C19: analyze_whale_changes never ends with a division by zero, and in
\* every change record it returns delta_pct is 100.0 when previous shares
\* are 0 and delta / previous shares x 100 rounded to 1 decimal otherwise.
Thm_C19_DeltaPctWithoutDivisionByZero ==
    /\ w_pc # "raised"
    /\ Compared =>
           \A c \in ReturnedChanges :
               /\ c.delta # 0
               /\ c.previous_shares = 0 => c.delta_pct = 1000
               /\ c.previous_shares # 0 =>
                      IsRoundedPct(c.delta_pct, c.delta, c.previous_shares)

\* C19 happens: a new position with delta_pct 100.0 next to a position
\* that was held before and grew
Wit_C19_NewPositionAndGrownOne ==
    /\ Compared
    /\ \E c \in Range(w_result[1].new_positions) :
           c.previous_shares = 0 /\ c.current_shares = 16 /\ c.delta_pct = 1000
    /\ \E c \in Range(w_result[1].top_buys) : c.previous_shares # 0

\* the share count a snapshot reports for a CUSIP: that of its last holding
\* with the CUSIP, 0 without one
ReportedShares(holdings, cusip) ==
    IF \E i \in 1..Len(holdings) : holdings[i].cusip = cusip
    THEN holdings[CHOOSE i \in 1..Len(holdings) :
                      /\ holdings[i].cusip = cusip
                      /\ \A j \in 1..Len(holdings) : holdings[j].cusip = cusip => j <= i].shares
    ELSE 0

\* the CUSIPs of both snapshots
BothCusips ==
    { w_current[i].cusip : i \in 1..Len(w_current) } \cup
    { w_previous[i].cusip : i \in 1..Len(w_previous) }

ShareDelta(cusip) == ReportedShares(w_current, cusip) - ReportedShares(w_previous, cusip)

\* the sum of the positive deltas, and of the absolute values of the negative ones
RECURSIVE SumBought(_)
SumBought(cusips) ==
    IF cusips = {} THEN 0
    ELSE LET c == CHOOSE x \in cusips : TRUE
         IN  (IF ShareDelta(c) > 0 THEN ShareDelta(c) ELSE 0) + SumBought(cusips \ {c})

RECURSIVE SumSold(_)
SumSold(cusips) ==
    IF cusips = {} THEN 0
    ELSE LET c == CHOOSE x \in cusips : TRUE
         IN  (IF ShareDelta(c) < 0 THEN -ShareDelta(c) ELSE 0) + SumSold(cusips \ {c})

\* C20: with current holdings that are not empty the call returns
\* net_conviction = (sum of the positive share deltas) - (sum of the absolute
\* values of the negative ones) over the CUSIPs of both snapshots, and the
\* signal is BULLISH, BEARISH or NEUTRAL as that number is > 0, < 0 or 0.
Thm_C20_NetConvictionAndSignal ==
    (w_pc # "called" /\ w_current # <<>>) =>
        /\ Compared
        /\ w_result[1].net_conviction =
               SumBought(BothCusips \ {<<>>}) - SumSold(BothCusips \ {<<>>})
        /\ w_result[1].conviction_signal = "BULLISH" <=> w_result[1].net_conviction > 0
        /\ w_result[1].conviction_signal = "BEARISH" <=> w_result[1].net_conviction < 0
        /\ w_result[1].conviction_signal = "NEUTRAL" <=> w_result[1].net_conviction = 0

\* C20 happens: one security bought, another sold for more
Wit_C20_SoldMoreThanBought ==
    /\ Compared
    /\ w_result[1].top_buys # <<>>
    /\ w_result[1].top_sells # <<>>
    /\ w_result[1].net_conviction = -1
    /\ w_result[1].conviction_signal = "BEARISH"

\* the CUSIPs whose share count went up, and those whose share count went down
BoughtCusips == {c \in BothCusips \ {<<>>} : ShareDelta(c) > 0}
SoldCusips == {c \in BothCusips \ {<<>>} : ShareDelta(c) < 0}

\* top holds the at most 5 records of the CUSIPs given with the largest
\* |delta|, one per CUSIP, in non-increasing order of |delta|
IsTopOf(top, cusips) ==
    /\ Len(top) = (IF Cardinality(cusips) < 5 THEN Cardinality(cusips) ELSE 5)
    /\ \A k \in 1..Len(top) :
        /\ top[k].cusip \in cusips
        /\ top[k].delta = ShareDelta(top[k].cusip)
        /\ \A j \in 1..(k - 1) :
            /\ top[j].cusip # top[k].cusip
            /\ Abs(top[j].delta) >= Abs(top[k].delta)
        /\ \A c \in cusips \ {top[j].cusip : j \in 1..Len(top)} :
            Abs(ShareDelta(c)) <= Abs(top[k].delta)

\* C24: no change record of the result has delta = 0; top_buys and top_sells
\* are the first at most 5 BUY (delta > 0) and SELL (delta < 0) records in
\* non-increasing order of |delta|; new_positions holds only records with
\* previous shares 0 and exits only records with current shares 0, so no
\* record is in both.
Thm_C24_TopListsAndPositions ==
    Compared =>
        /\ \A c \in ReturnedChanges : c.delta # 0
        /\ IsTopOf(w_result[1].top_buys, BoughtCusips)
        /\ \A c \in Range(w_result[1].top_buys) : c.action = "BUY" /\ c.delta > 0
        /\ IsTopOf(w_result[1].top_sells, SoldCusips)
        /\ \A c \in Range(w_result[1].top_sells) : c.action = "SELL" /\ c.delta < 0
        /\ \A c \in Range(w_result[1].new_positions) : c.previous_shares = 0
        /\ \A c \in Range(w_result[1].exits) : c.current_shares = 0
        /\ Range(w_result[1].new_positions) \cap Range(w_result[1].exits) = {}

\* C24 witness: six securities were bought, two of them as new positions;
\* top_buys holds five records, the new positions first, and the sixth
\* purchase is left out.
Wit_C24_SixBoughtFiveListed ==
    /\ Compared
    /\ Cardinality(BoughtCusips) = 6
    /\ Len(w_result[1].top_buys) = 5
    /\ w_result[1].top_buys[1].delta = 20
    /\ w_result[1].top_buys[2].delta = 20
    /\ w_result[1].top_buys[3].delta = 1
    /\ Len(w_result[1].new_positions) = 2

\* the same for sales: six securities sold, five listed, an exit among them
SixSoldFiveListed ==
    /\ Compared
    /\ Cardinality(SoldCusips) = 6
    /\ Len(w_result[1].top_sells) = 5
    /\ Len(w_result[1].exits) >= 1

====
